---- MODULE Spec2Model ----
(***************************************************************************)
(* The statement-deployment orchestrator of the click-stream pipeline:     *)
(* FlinkSQLManager (flink_sql.py), PipelineRunner and main                 *)
(* (run_pipeline.py) and cleanup_pipeline (cleanup.py), as one sequential  *)
(* program with a program counter and a stack of return labels.  The       *)
(* remote engine, the broker and the user (Ctrl-C) are the environment:    *)
(* every answer they can give is a nondeterministic input of the action    *)
(* that reads it.                                                          *)
(*                                                                         *)
(* SQL text is modelled by what the code reads of it: its stripped         *)
(* length, whether it contains one of the six keywords, and the verb its   *)
(* upper-cased text starts with.  HTTP status codes are strings; "201"     *)
(* stands for the branch `status_code in [200, 201]`, "400" and "500" for  *)
(* any other status, "exc" for a raised requests exception.                *)
(***************************************************************************)
EXTENDS Integers, Sequences, FiniteSets, TLC

(* ------------------------------ bounds -------------------------------- *)
\* files in the sql directory of a deployment (one statement each)
MaxUnits == 2
\* files in the sql directory of a full pipeline run (run_pipeline.py)
MaxRunUnits == 1
\* consecutive PENDING/PROVISIONING answers the engine gives one poll
MaxPolls == 2
\* statements of another, concurrent run that live on the same engine
MaxOther == 1
\* Ctrl-C presses during one process
MaxInterrupts == 1
\* files in the sql directory, and parts (pieces between ';') in all of
\* them together, of a deployment that follows the loading
MaxLoadFiles == 2
MaxLoadParts == 3
\* int(time.time()) as the first statement name is made, the seconds that
\* pass while names are made, and the names made
StartTime == 1700000000
MaxTicks == 1
MaxSubmits == 2

(* ------------------------- program constants -------------------------- *)
\* len(stmt) > 50
MinLen == 50
\* time.sleep(5)  # ALTER statements need less time
AlterSettle == 5
\* time.sleep(10)  # CREATE statements need more time
CreateSettle == 10
\* time.sleep(8)   # INSERT statements
InsertSettle == 8
\* if len(unique_name) > 100
NameLimit == 100

\* nested calls CPython allows before it raises RecursionError
\* (sys.getrecursionlimit() as the interpreter starts); each retry of
\* check_statement_status is one more nested call
RecursionLimit == 1000

\* config.pipeline_id of the run the model follows, and of a concurrent run
RunId == "A"
OtherRun == "B"

VARIABLES
  config,          \* config.config: the set of keys with a non-empty value
  sqlDir,          \* the sql directory: file name -> [parts, exists]
  remote,          \* the engine's collection of statements (handles)
  interrupts,      \* Ctrl-C presses so far
  pc,              \* the statement the process is at
  stack,           \* return labels of the calls in progress
  ctx,             \* "bare" | "try" | "finally" | "handler": the enclosing
                   \* exception context of run_pipeline.py
  pending,         \* what run_pipeline's finally block completes with
  statements,      \* self.statements
  idx,             \* position of deploy_pipeline's for loop
  result,          \* execute_statement's return value
  insert_handles,  \* deploy_pipeline's insert_handles
  deployRet,       \* deploy_pipeline's return value ("none" until it returns)
  statement_id,    \* handle being polled
  response,        \* the last response of check_statement_status's GET
  depth,           \* recursion depth of check_statement_status
  checkRet,        \* check_statement_status's return value
  full_cleanup,    \* cleanup's argument
  listing,         \* cleanup_statements' `statements` (the listed data)
  li,              \* position of cleanup_statements' for loop
  success,         \* run_pipeline's return value
  exitVal,         \* how the process ended
  \* history (what was sent to,  and seen from, the collaborators)
  postCode,        \* per unit: the answer to its POST ("none": not posted)
  lastPhase,       \* per unit: the last answer to a status GET for it
  settleDelay,     \* per unit: seconds slept in deploy_pipeline's settle step
  execRet,         \* per unit: what execute_statement returned
  reports,         \* unit names printed in deploy_pipeline's failure lines
  stopReqs,        \* handles a DELETE was sent for
  stopCodes,       \* the answers to the DELETE requests of the
                   \* cleanup_statements call in progress, in order
  cleanupCalls,    \* full_cleanup of every PipelineRunner.cleanup call
  stmtCleanups,    \* calls of cleanup_statements
  listCalls,       \* list requests answered
  topicDeletes,    \* calls of delete_topics
  interruptedAt,   \* pc of the first KeyboardInterrupt
  phasesRun,       \* steps of run_pipeline that ran to their end
  now,             \* int(time.time())
  sent,            \* the payload names made so far: [run, unit, name]
  \* topics.py
  pipeline_id,     \* config.pipeline_id
  ti,              \* position of the loop over the futures (topics)
  si,              \* position in the schema subjects
  tOutcome,        \* what the last future.result / subject call gave
  createRet,       \* create_topics' return value ("none" until it returns)
  readyTopics,     \* topics created, or found existing, by create_topics
  registered,      \* subjects register_schema has registered
  deleteReqs,      \* topics passed to admin_client.delete_topics
  subjectDeletes   \* subjects delete_subject was called for

topicLocals == <<ti, si, tOutcome>>
topicHist ==
  <<pipeline_id, createRet, readyTopics, registered, deleteReqs, subjectDeletes>>
\* what no function of flink_sql.py changes
envVars == <<config, sqlDir, now, sent, topicLocals, topicHist>>
ctlVars == <<ctx, pending, success, phasesRun>>
deployVars == <<statements, idx, result, insert_handles, deployRet>>
checkVars == <<statement_id, response, depth, checkRet>>
cleanVars == <<full_cleanup, listing, li>>
deployHist == <<postCode, lastPhase, settleDelay, execRet, reports>>
cleanHist ==
  <<stopReqs, stopCodes, cleanupCalls, stmtCleanups, listCalls, topicDeletes>>
vars == <<envVars, remote, interrupts, pc, stack, ctlVars, deployVars,
          checkVars, cleanVars, exitVal, deployHist, cleanHist, interruptedAt>>

(* ------------------------------ config.py ----------------------------- *)
\* PipelineConfig.validate_config: required_vars
RequiredVars ==
  {"BOOTSTRAP_SERVERS", "SASL_USERNAME", "SASL_PASSWORD",
   "FLINK_REST_ENDPOINT", "FLINK_API_KEY", "FLINK_API_SECRET",
   "CONFLUENT_CLOUD_ENVIRONMENT_ID", "SCHEMA_REGISTRY_API_KEY",
   "SCHEMA_REGISTRY_API_SECRET", "SCHEMA_REGISTRY_ENDPOINT"}

\* keys the code reads with .get() and no validation
OptionalVars ==
  {"FLINK_ORG_ID", "CONFLUENT_ENV_ID", "FLINK_COMPUTE_POOL_ID",
   "SQL_CURRENT_CATALOG", "SQL_CURRENT_DATABASE", "PIPELINE_ID"}

FullConfig == RequiredVars \cup OptionalVars

\* missing = [var for var in required_vars if not self.config.get(var)]
validate_config(cfg) == RequiredVars \subseteq cfg

\* FlinkSQLManager.setup: validate_config, then FLINK_ORG_ID and the
\* environment id (CONFLUENT_ENV_ID or CONFLUENT_CLOUD_ENVIRONMENT_ID)
ManagerSetup(cfg) ==
  /\ validate_config(cfg)
  /\ "FLINK_ORG_ID" \in cfg
  /\ ("CONFLUENT_ENV_ID" \in cfg \/ "CONFLUENT_CLOUD_ENVIRONMENT_ID" \in cfg)

(* ------------------------ SQL text and units -------------------------- *)
Verbs == {"ALTER", "CREATE", "INSERT", "OTHER"}

\* a statement of more than MinLen characters that starts with verb v
\* ("OTHER": SELECT/UPDATE/DELETE, or a keyword after a leading comment)
Stmt(v) == [head |-> v, kw |-> TRUE, len |-> MinLen + 1]

\* sql.strip().upper().startswith(v)
StartsWith(sql, v) == sql.head = v

\* stmt and any(keyword in stmt.upper() ...) and len(stmt) > 50
PassesFilter(stmt) == stmt.len > 0 /\ stmt.kw /\ stmt.len > MinLen

\* the names in descending order
RECURSIVE SortedNamesDesc(_)
SortedNamesDesc(S) ==
  IF S = {} THEN <<>>
  ELSE LET m == CHOOSE x \in S : \A y \in S : x >= y
       IN <<m>> \o SortedNamesDesc(S \ {m})

\* sorted([f.name for f in sql_dir.glob("*.sql")])
RECURSIVE SortedNames(_)
SortedNames(S) ==
  IF S = {} THEN <<>>
  ELSE LET m == CHOOSE x \in S : \A y \in S : x <= y
       IN <<m>> \o SortedNames(S \ {m})

\* units that always carry their position in the name
FileUnitsSuffixed(name, parts) ==
  LET st == SelectSeq(parts, PassesFilter)
  IN [i \in 1..Len(st) |->
        [name |-> [file |-> name, part |-> i], sql |-> st[i]]]

\* the units one file adds to self.statements
FileUnits(name, parts) ==
  LET st == SelectSeq(parts, PassesFilter)
  IN [i \in 1..Len(st) |->
        [name |-> [file |-> name, part |-> IF Len(st) > 1 THEN i ELSE 0],
         sql  |-> st[i]]]

\* a load that takes a file without a statement for an error
RECURSIVE LoadFilesStrict(_, _, _)
LoadFilesStrict(dir, names, acc) ==
  IF names = <<>> THEN [ok |-> TRUE, statements |-> acc]
  ELSE LET f == dir[Head(names)]
       IN IF f.exists /\ FileUnits(Head(names), f.parts) # <<>>
          THEN LoadFilesStrict(dir, Tail(names),
                               acc \o FileUnits(Head(names), f.parts))
          ELSE [ok |-> FALSE, statements |-> acc]

\* a load that passes over a file that is gone
RECURSIVE LoadFilesSkipMissing(_, _, _)
LoadFilesSkipMissing(dir, names, acc) ==
  IF names = <<>> THEN [ok |-> TRUE, statements |-> acc]
  ELSE LET f == dir[Head(names)]
       IN LoadFilesSkipMissing(dir, Tail(names),
            IF f.exists THEN acc \o FileUnits(Head(names), f.parts) ELSE acc)

\* load_sql_files' loop over sql_files: [ok, statements]; a file that is
\* gone when it is opened ends the load with False
RECURSIVE LoadFiles(_, _, _)
LoadFiles(dir, names, acc) ==
  IF names = <<>> THEN [ok |-> TRUE, statements |-> acc]
  ELSE LET f == dir[Head(names)]
       IN IF f.exists
          THEN LoadFiles(dir, Tail(names), acc \o FileUnits(Head(names), f.parts))
          ELSE [ok |-> FALSE, statements |-> acc]

\* a load that appends to the units self.statements already holds
load_sql_files_appending(dir) ==
  LoadFiles(dir, SortedNames(DOMAIN dir), statements)

\* load_sql_files: sql_files = sorted(...); self.statements = []; the loop
load_sql_files(dir) == LoadFiles(dir, SortedNames(DOMAIN dir), <<>>)

(* ------------- flink_sql.py: execute_statement, payload name ---------- *)
\* names are sequences of one-character strings
Uppers ==
  <<"A", "B", "C", "D", "E", "F", "G", "H", "I", "J", "K", "L", "M",
    "N", "O", "P", "Q", "R", "S", "T", "U", "V", "W", "X", "Y", "Z">>
Lowers ==
  <<"a", "b", "c", "d", "e", "f", "g", "h", "i", "j", "k", "l", "m",
    "n", "o", "p", "q", "r", "s", "t", "u", "v", "w", "x", "y", "z">>
DigitChars == <<"0", "1", "2", "3", "4", "5", "6", "7", "8", "9">>

\* str.lower(), one character
LowerChar(c) ==
  IF \E k \in 1..26 : Uppers[k] = c
  THEN Lowers[CHOOSE k \in 1..26 : Uppers[k] = c]
  ELSE c

\* .lower()
Lower(w) == [k \in 1..Len(w) |-> LowerChar(w[k])]

\* .replace(old, '-') for a one-character old
ReplaceChar(w, old) == [k \in 1..Len(w) |-> IF w[k] = old THEN "-" ELSE w[k]]

DotSql == <<".", "s", "q", "l">>

\* .replace('.sql', ''): every occurrence, scanning from the left, in one
\* pass.  Two occurrences of '.sql' cannot overlap (the dot is its first
\* character only), so the occurrences the scan finds are all the places
\* where the four characters stand, and the result is w without the
\* positions they cover.
RemoveSql(w) ==
  LET starts(p) == p >= 1 /\ p + 3 <= Len(w) /\ SubSeq(w, p, p + 3) = DotSql
      covered(k) == \E p \in (k - 3)..k : starts(p)
      kept == SelectSeq([k \in 1..Len(w) |-> k], LAMBDA k : ~covered(k))
  IN [j \in 1..Len(kept) |-> w[kept[j]]]

\* statement_name.lower().replace('_', '-').replace(' ', '-').replace('.sql', '')
SafeName(statement_name) ==
  RemoveSql(ReplaceChar(ReplaceChar(Lower(statement_name), "_"), " "))

\* str(n) of a non-negative integer
RECURSIVE Str(_)
Str(n) ==
  IF n < 10 THEN <<DigitChars[n + 1]>>
  ELSE Str(n \div 10) \o <<DigitChars[(n % 10) + 1]>>

\* a name cut to the limit as a whole, timestamp included
UniqueNameCutWhole(statement_name, t) ==
  LET full == SafeName(statement_name) \o <<"-">> \o Str(t)
  IN IF Len(full) > NameLimit THEN SubSeq(full, 1, NameLimit) ELSE full

\* unique_name: f"{safe_name}-{int(time.time())}", with safe_name cut to
\* 100 - len(str(int(time.time()))) - 1 characters when that is longer
\* than 100
UniqueName(statement_name, t) ==
  LET safe == SafeName(statement_name)
      full == safe \o <<"-">> \o Str(t)
      max_safe_length == NameLimit - Len(Str(t)) - 1
  IN IF Len(full) > NameLimit
     THEN SubSeq(safe, 1, max_safe_length) \o <<"-">> \o Str(t)
     ELSE full

(* --------------------------- the remote engine ------------------------ *)
Phases ==
  {"RUNNING", "COMPLETED", "FAILED", "PENDING", "PROVISIONING",
   "UNKNOWN",      \* the response carries no phase: .get('phase', 'UNKNOWN')
   "DEGRADED"}     \* a phase string the code does not name
NonTerminal == {"PENDING", "PROVISIONING"}

\* answers to POST /statements
PostAnswers == {"201", "409", "400", "exc"}
\* answers to GET /statements/{id}
GetAnswers ==
  [code : {"200"}, phase : Phases] \cup
  {[code |-> "500", phase |-> "-"], [code |-> "exc", phase |-> "-"]}
NoResponse == [code |-> "none", phase |-> "-"]

Handle(owner, n) == [owner |-> owner, id |-> n]
NoHandle == Handle("-", 0)

NoResult == [kind |-> "none", id |-> NoHandle]
RetFalse == [kind |-> "False", id |-> NoHandle]
RetTrue == [kind |-> "True", id |-> NoHandle]
RetStr(h) == [kind |-> "str", id |-> h]

(* ----------------------------- call / return -------------------------- *)
Call(label, ret) == pc' = label /\ stack' = <<ret>> \o stack
Return == pc' = Head(stack) /\ stack' = Tail(stack)

(* ------------------- flink_sql.py: check_statement_status ------------- *)
\* a chain that trusts only the phases it names
PhaseOutcomeStrict(phase) ==
  IF phase \in {"RUNNING", "COMPLETED"} THEN "True"
  ELSE IF phase \in {"PENDING", "PROVISIONING"} THEN "retry"
  ELSE "False"

\* the if/elif chain on `status`: "True", "False" or "retry"
PhaseOutcome(phase) ==
  IF phase = "RUNNING" THEN "True"
  ELSE IF phase = "COMPLETED" THEN "True"
  ELSE IF phase = "FAILED" THEN "False"
  ELSE IF phase \in {"PENDING", "PROVISIONING"} THEN "retry"
  ELSE "True"

\* the unit of self.statements a handle of this run was created for
UnitOf(h) == h.id

\* a check that takes a failed query for a statement that is fine
StatusOutcomeLenient(r) ==
  IF r.code = "200" THEN PhaseOutcome(r.phase) ELSE "True"

\* what one activation does with the answer r to its GET: the phase chain
\* on a 200, False on any other status and on a raised exception
StatusOutcome(r) ==
  IF r.code = "200" THEN PhaseOutcome(r.phase) ELSE "False"

\* requests.get(.../statements/{statement_id}) and the branch on its answer;
\* the engine gives at most `cap` PENDING/PROVISIONING answers in a row
CkGetWithin(cap) ==
  /\ pc = "ck_get"
  /\ depth < RecursionLimit
  /\ \E r \in GetAnswers :
       /\ r.phase \in NonTerminal => depth < cap
       /\ response' = r
       /\ lastPhase' = [lastPhase EXCEPT ![UnitOf(statement_id)] =
                          IF r.code = "200" THEN r.phase ELSE r.code]
       /\ IF StatusOutcome(r) = "retry"
          THEN /\ pc' = "ck_sleep"
               /\ UNCHANGED <<stack, checkRet>>
          ELSE /\ checkRet' = (StatusOutcome(r) = "True")
               /\ Return
  /\ UNCHANGED <<envVars, remote, interrupts, ctlVars, deployVars,
                 statement_id, depth, cleanVars, exitVal, postCode,
                 settleDelay, execRet, reports, cleanHist, interruptedAt>>

CkGet == CkGetWithin(MaxPolls)

\* the nested call that exceeds the interpreter's recursion limit raises
\* RecursionError (an Exception) inside the try block: `except Exception`
\* prints it and returns False; no answer of the engine was read
CkOverflow ==
  /\ pc = "ck_get"
  /\ depth >= RecursionLimit
  /\ response' = NoResponse
  /\ checkRet' = FALSE
  /\ Return
  /\ UNCHANGED <<envVars, remote, interrupts, ctlVars, deployVars,
                 statement_id, depth, cleanVars, exitVal, deployHist,
                 cleanHist, interruptedAt>>

\* time.sleep(5); return self.check_statement_status(statement_id)
CkSleep ==
  /\ pc = "ck_sleep"
  /\ pc' = "ck_get"
  /\ depth' = depth + 1
  /\ UNCHANGED <<envVars, remote, interrupts, stack, ctlVars, deployVars,
                 statement_id, response, checkRet, cleanVars, exitVal,
                 deployHist, cleanHist, interruptedAt>>

(* --------------------- flink_sql.py: execute_statement ---------------- *)
\* an execute_statement for which every answer is a success
PostOutcomeLenient(code) == RetTrue

\* execute_statement's return value when the POST made no statement:
\* True on 409, False on any other status and on a raised exception
PostOutcome(code) == IF code = "409" THEN RetTrue ELSE RetFalse

\* requests.post(.../statements) and the branch on response.status_code
ExPost ==
  /\ pc = "ex_post"
  /\ \E code \in PostAnswers :
       /\ postCode' = [postCode EXCEPT ![idx] = code]
       /\ IF code = "201"
          THEN /\ remote' = Append(remote, Handle(RunId, idx))
               /\ statement_id' = Handle(RunId, idx)
               /\ depth' = 0
               /\ Call("ck_get", "ex_checked")
               /\ UNCHANGED <<result, execRet>>
          ELSE /\ result' = PostOutcome(code)
               /\ execRet' = [execRet EXCEPT ![idx] = result'.kind]
               /\ pc' = "dp_executed"
               /\ UNCHANGED <<remote, statement_id, depth, stack>>
  /\ UNCHANGED <<envVars, interrupts, ctlVars, statements, idx,
                 insert_handles, deployRet, response, checkRet, cleanVars,
                 exitVal, lastPhase, settleDelay, reports, cleanHist,
                 interruptedAt>>

\* an execute_statement that does not look at the result of its check
ExCheckedIgnore ==
  /\ pc = "ex_checked"
  /\ result' = IF StartsWith(statements[idx].sql, "INSERT")
               THEN RetStr(statement_id)
               ELSE RetTrue
  /\ execRet' = [execRet EXCEPT ![idx] = result'.kind]
  /\ pc' = "dp_executed"
  /\ UNCHANGED <<envVars, remote, interrupts, stack, ctlVars, statements, idx,
                 insert_handles, deployRet, checkVars, cleanVars, exitVal,
                 postCode, lastPhase, settleDelay, reports, cleanHist,
                 interruptedAt>>

\* if not self.check_statement_status(statement_id): return False
\* if statement_sql.strip().upper().startswith('INSERT'): return statement_id
\* return True
ExChecked ==
  /\ pc = "ex_checked"
  /\ result' = IF ~checkRet THEN RetFalse
               ELSE IF StartsWith(statements[idx].sql, "INSERT")
                    THEN RetStr(statement_id)
                    ELSE RetTrue
  /\ execRet' = [execRet EXCEPT ![idx] = result'.kind]
  /\ pc' = "dp_executed"
  /\ UNCHANGED <<envVars, remote, interrupts, stack, ctlVars, statements, idx,
                 insert_handles, deployRet, checkVars, cleanVars, exitVal,
                 postCode, lastPhase, settleDelay, reports, cleanHist,
                 interruptedAt>>

(* ---------------------- flink_sql.py: deploy_pipeline ----------------- *)
\* the locals of deploy_pipeline and of the calls below it are gone once
\* its frame is left (by a return or by an exception passing through)
DropDeployFrame ==
  /\ idx' = 0
  /\ result' = NoResult
  /\ insert_handles' = <<>>
  /\ statement_id' = NoHandle
  /\ response' = NoResponse
  /\ depth' = 0
  /\ checkRet' = FALSE

\* the settle sleep of deploy_pipeline, by the statement's verb
SettleSeconds(sql) ==
  IF StartsWith(sql, "ALTER") THEN AlterSettle
  ELSE IF StartsWith(sql, "CREATE") THEN CreateSettle
  ELSE InsertSettle

\* if not self.load_sql_files(): return False ; insert_handles = []
DpLoad ==
  /\ pc = "dp_load"
  /\ LET l == load_sql_files(sqlDir)
         n == Len(l.statements)
     IN /\ statements' = l.statements
        /\ postCode' = [i \in 1..n |-> "none"]
        /\ lastPhase' = [i \in 1..n |-> "none"]
        /\ settleDelay' = [i \in 1..n |-> 0]
        /\ execRet' = [i \in 1..n |-> "none"]
        /\ IF l.ok
           THEN /\ insert_handles' = <<>>
                /\ idx' = 1
                /\ pc' = "dp_loop"
                /\ UNCHANGED <<stack, deployRet>>
           ELSE /\ deployRet' = "False"
                /\ Return
                /\ UNCHANGED <<insert_handles, idx>>
  /\ UNCHANGED <<envVars, remote, interrupts, ctlVars, result, checkVars,
                 cleanVars, exitVal, reports, cleanHist, interruptedAt>>

\* for statement in self.statements:
\*     result = self.execute_statement(statement['name'], statement['sql'])
DpNext ==
  /\ pc = "dp_loop"
  /\ idx <= Len(statements)
  /\ pc' = "ex_post"
  /\ UNCHANGED <<envVars, remote, interrupts, stack, ctlVars, deployVars,
                 checkVars, cleanVars, exitVal, deployHist, cleanHist,
                 interruptedAt>>

\* a deployment that takes an empty list of units for a failure
DpDoneNonEmpty ==
  /\ pc = "dp_loop"
  /\ idx > Len(statements)
  /\ deployRet' = IF statements = <<>> THEN "False" ELSE "True"
  /\ Return
  /\ DropDeployFrame
  /\ UNCHANGED <<envVars, remote, interrupts, ctlVars, statements, cleanVars,
                 exitVal, deployHist, cleanHist, interruptedAt>>

\* the loop is exhausted: return True
DpDone ==
  /\ pc = "dp_loop"
  /\ idx > Len(statements)
  /\ deployRet' = "True"
  /\ Return
  /\ DropDeployFrame
  /\ UNCHANGED <<envVars, remote, interrupts, ctlVars, statements, cleanVars,
                 exitVal, deployHist, cleanHist, interruptedAt>>

\* a loop that prints the failure of a unit and goes on to the next one
DpExecutedContinue ==
  /\ pc = "dp_executed"
  /\ IF result.kind = "str"
     THEN pc' = "dp_settle" /\ UNCHANGED <<idx, reports>>
     ELSE /\ pc' = "dp_loop"
          /\ idx' = idx + 1
          /\ reports' = IF result.kind = "False"
                        THEN Append(reports, statements[idx].name)
                        ELSE reports
  /\ UNCHANGED <<envVars, remote, interrupts, stack, ctlVars, statements,
                 result, insert_handles, deployRet, checkVars, cleanVars,
                 exitVal, postCode, lastPhase, settleDelay, execRet, cleanHist,
                 interruptedAt>>

\* a loop that stops the INSERT statements it started when a unit fails
DpExecutedStopInserts ==
  /\ pc = "dp_executed"
  /\ IF result.kind = "False"
     THEN /\ reports' = Append(reports, statements[idx].name)
          /\ deployRet' = "False"
          /\ stopReqs' = stopReqs \cup {insert_handles[k] : k \in DOMAIN insert_handles}
          /\ remote' = SelectSeq(remote, LAMBDA h :
                          \A k \in DOMAIN insert_handles : insert_handles[k] # h)
          /\ Return
          /\ DropDeployFrame
     ELSE /\ IF result.kind = "str"
             THEN pc' = "dp_settle" /\ UNCHANGED idx
             ELSE pc' = "dp_loop" /\ idx' = idx + 1
          /\ UNCHANGED <<reports, deployRet, stack, result, insert_handles,
                         checkVars, stopReqs, remote>>
  /\ UNCHANGED <<envVars, interrupts, ctlVars, statements, cleanVars,
                 exitVal, postCode, lastPhase, settleDelay, execRet, stopCodes,
                 cleanupCalls, stmtCleanups, listCalls, topicDeletes,
                 interruptedAt>>

\* if result is False: print, return False
\* if isinstance(result, str): go on to the settle sleep; else next unit
DpExecuted ==
  /\ pc = "dp_executed"
  /\ IF result.kind = "False"
     THEN /\ reports' = Append(reports, statements[idx].name)
          /\ deployRet' = "False"
          /\ Return
          /\ DropDeployFrame
     ELSE /\ IF result.kind = "str"
             THEN pc' = "dp_settle" /\ UNCHANGED idx
             ELSE pc' = "dp_loop" /\ idx' = idx + 1
          /\ UNCHANGED <<reports, deployRet, stack, result, insert_handles,
                         checkVars>>
  /\ UNCHANGED <<envVars, remote, interrupts, ctlVars, statements, cleanVars,
                 exitVal, postCode, lastPhase, settleDelay, execRet, cleanHist,
                 interruptedAt>>

\* time.sleep(5 | 10 | 8), then self.check_statement_status(result)
DpSettle ==
  /\ pc = "dp_settle"
  /\ settleDelay' = [settleDelay EXCEPT ![idx] = SettleSeconds(statements[idx].sql)]
  /\ statement_id' = result.id
  /\ depth' = 0
  /\ Call("ck_get", "dp_checked")
  /\ UNCHANGED <<envVars, remote, interrupts, ctlVars, deployVars, response,
                 checkRet, cleanVars, exitVal, postCode, lastPhase, execRet,
                 reports, cleanHist, interruptedAt>>

\* a loop that does not look at the result of the poll after the settle
\* sleep
DpCheckedIgnore ==
  /\ pc = "dp_checked"
  /\ insert_handles' = Append(insert_handles, result.id)
  /\ idx' = idx + 1
  /\ pc' = "dp_loop"
  /\ UNCHANGED <<reports, deployRet, stack, result, checkVars>>
  /\ UNCHANGED <<envVars, remote, interrupts, ctlVars, statements, cleanVars,
                 exitVal, postCode, lastPhase, settleDelay, execRet, cleanHist,
                 interruptedAt>>

\* if not self.check_statement_status(result): print, return False
\* insert_handles.append(result)   ('INSERT' is in the sql of every unit
\* that got here: its text starts with INSERT)
DpChecked ==
  /\ pc = "dp_checked"
  /\ IF ~checkRet
     THEN /\ reports' = Append(reports, statements[idx].name)
          /\ deployRet' = "False"
          /\ Return
          /\ DropDeployFrame
     ELSE /\ insert_handles' = Append(insert_handles, result.id)
          /\ idx' = idx + 1
          /\ pc' = "dp_loop"
          /\ UNCHANGED <<reports, deployRet, stack, result, checkVars>>
  /\ UNCHANGED <<envVars, remote, interrupts, ctlVars, statements, cleanVars,
                 exitVal, postCode, lastPhase, settleDelay, execRet, cleanHist,
                 interruptedAt>>

(* -------------------------- flink_sql.py: main ------------------------ *)
\* if not manager.setup(): return False ; return manager.deploy_pipeline()
FmSetup ==
  /\ pc = "fm_start"
  /\ IF ManagerSetup(config)
     THEN Call("dp_load", "fm_deployed") /\ UNCHANGED exitVal
     ELSE pc' = "exit" /\ exitVal' = "False" /\ UNCHANGED stack
  /\ UNCHANGED <<envVars, remote, interrupts, ctlVars, deployVars, checkVars,
                 cleanVars, deployHist, cleanHist, interruptedAt>>

FmDeployed ==
  /\ pc = "fm_deployed"
  /\ pc' = "exit"
  /\ exitVal' = deployRet
  /\ UNCHANGED <<envVars, remote, interrupts, stack, ctlVars, deployVars,
                 checkVars, cleanVars, deployHist, cleanHist, interruptedAt>>

(* -------------------- flink_sql.py: cleanup_statements ---------------- *)
\* status values of the entries of the list response
ListStatuses == {"RUNNING", "PENDING", "PROVISIONING", "COMPLETED"}
\* answers to GET /v1/statements and to DELETE /v1/statements/{handle}
ListAnswers == {"200", "500", "exc"}
StopAnswers == {"200", "404", "exc"}

\* every list response the engine can give for its collection: one entry
\* per statement, of any run, each with a status
Listings(coll) ==
  {[k \in 1..Len(coll) |-> [statement_handle |-> coll[k], status |-> st[k]]]
     : st \in [1..Len(coll) -> ListStatuses]}

\* a test that takes every listed statement for one to stop
ActiveAlways(entry) == entry.status \in ListStatuses

\* if status in ['RUNNING', 'PENDING']
Active(entry) == entry.status \in {"RUNNING", "PENDING"}

Without(coll, h) == SelectSeq(coll, LAMBDA x : x # h)

\* requests.get(.../v1/statements); statements = response.json().get('data', [])
CsList ==
  /\ pc = "cs_list"
  /\ \E code \in ListAnswers :
       IF code = "200"
       THEN /\ listing' \in Listings(remote)
            /\ li' = 1
            /\ listCalls' = listCalls + 1
            /\ pc' = "cs_loop"
       ELSE /\ listing' = <<>>
            /\ li' = 0
            /\ UNCHANGED listCalls
            /\ pc' = "cs_ret"
  /\ UNCHANGED <<envVars, remote, interrupts, stack, ctlVars, deployVars,
                 checkVars, full_cleanup, exitVal, deployHist, stopReqs, stopCodes,
                 cleanupCalls, stmtCleanups, topicDeletes, interruptedAt>>

\* a loop that gives up at the first stop request not answered 200
CsStopGiveUp ==
  /\ pc = "cs_loop"
  /\ li <= Len(listing)
  /\ Active(listing[li])
  /\ \E code \in StopAnswers :
       /\ stopReqs' = stopReqs \cup {listing[li].statement_handle}
       /\ stopCodes' = Append(stopCodes, code)
       /\ remote' = IF code = "200"
                    THEN Without(remote, listing[li].statement_handle)
                    ELSE remote
       /\ IF code # "200"
          THEN pc' = "cs_ret" /\ UNCHANGED li
          ELSE pc' = "cs_loop" /\ li' = li + 1
  /\ UNCHANGED <<envVars, interrupts, stack, ctlVars, deployVars, checkVars,
                 full_cleanup, listing, exitVal, deployHist, cleanupCalls,
                 stmtCleanups, listCalls, topicDeletes, interruptedAt>>

\* an entry that is RUNNING or PENDING: requests.delete(.../{statement_handle});
\* a raised exception leaves the loop for the function's `except Exception`
CsStop ==
  /\ pc = "cs_loop"
  /\ li <= Len(listing)
  /\ Active(listing[li])
  /\ \E code \in StopAnswers :
       /\ stopReqs' = stopReqs \cup {listing[li].statement_handle}
       /\ stopCodes' = Append(stopCodes, code)
       /\ remote' = IF code = "200"
                    THEN Without(remote, listing[li].statement_handle)
                    ELSE remote
       /\ IF code = "exc"
          THEN pc' = "cs_ret" /\ UNCHANGED li
          ELSE pc' = "cs_loop" /\ li' = li + 1
  /\ UNCHANGED <<envVars, interrupts, stack, ctlVars, deployVars, checkVars,
                 full_cleanup, listing, exitVal, deployHist, cleanupCalls,
                 stmtCleanups, listCalls, topicDeletes, interruptedAt>>

\* an entry with any other status is passed over
CsSkip ==
  /\ pc = "cs_loop"
  /\ li <= Len(listing)
  /\ ~Active(listing[li])
  /\ li' = li + 1
  /\ UNCHANGED <<envVars, remote, interrupts, pc, stack, ctlVars, deployVars,
                 checkVars, full_cleanup, listing, exitVal, deployHist,
                 cleanHist, interruptedAt>>

\* the loop is exhausted
CsEnd ==
  /\ pc = "cs_loop"
  /\ li > Len(listing)
  /\ pc' = "cs_ret"
  /\ UNCHANGED <<envVars, remote, interrupts, stack, ctlVars, deployVars,
                 checkVars, cleanVars, exitVal, deployHist, cleanHist,
                 interruptedAt>>

\* cleanup_statements returns (None); its locals are gone
CsReturn ==
  /\ pc = "cs_ret"
  /\ listing' = <<>>
  /\ li' = 0
  /\ stopCodes' = <<>>
  /\ Return
  /\ UNCHANGED <<envVars, remote, interrupts, ctlVars, deployVars, checkVars,
                 full_cleanup, exitVal, deployHist, stopReqs, cleanupCalls,
                 stmtCleanups, listCalls, topicDeletes, interruptedAt>>

(* ----------------------- cleanup.py: cleanup_pipeline ----------------- *)
\* flink_manager = FlinkSQLManager()
\* if flink_manager.setup(): flink_manager.cleanup_statements()
CpStart ==
  /\ pc = "cp_start"
  /\ IF ManagerSetup(config)
     THEN /\ stmtCleanups' = stmtCleanups + 1
          /\ Call("cs_list", "cp_cleaned")
     ELSE /\ pc' = "cp_cleaned"
          /\ UNCHANGED <<stack, stmtCleanups>>
  /\ UNCHANGED <<envVars, remote, interrupts, ctlVars, deployVars, checkVars,
                 cleanVars, exitVal, deployHist, stopReqs, stopCodes, cleanupCalls,
                 listCalls, topicDeletes, interruptedAt>>

\* delete_topics(): admin_client.delete_topics(topics_to_delete) sends the
\* deletion request
CpDelete ==
  /\ pc = "cp_cleaned"
  /\ topicDeletes' = topicDeletes + 1
  /\ pc' = "cp_deleting"
  /\ UNCHANGED <<envVars, remote, interrupts, stack, ctlVars, deployVars,
                 checkVars, cleanVars, exitVal, deployHist, stopReqs, stopCodes,
                 cleanupCalls, stmtCleanups, listCalls, interruptedAt>>

\* delete_topics(): future.result(timeout=30) per topic, then the schema
\* subjects; every Exception is caught and printed
CpDeleted ==
  /\ pc = "cp_deleting"
  /\ pc' = "exit"
  /\ exitVal' = "None"
  /\ UNCHANGED <<envVars, remote, interrupts, stack, ctlVars, deployVars,
                 checkVars, cleanVars, deployHist, cleanHist, interruptedAt>>

(* ------------------ run_pipeline.py: PipelineRunner.cleanup ----------- *)
\* outcomes of a collaborator call that returns nothing
CallOutcomes == {"ok", "raise"}

\* if self.flink_manager: self.flink_manager.cleanup_statements()
\* (self.flink_manager is set by setup, which every run has passed)
ClStart ==
  /\ pc = "cl_start"
  /\ cleanupCalls' = Append(cleanupCalls, full_cleanup)
  /\ stmtCleanups' = stmtCleanups + 1
  /\ Call("cs_list", "cl_stopped")
  /\ UNCHANGED <<envVars, remote, interrupts, ctlVars, deployVars, checkVars,
                 cleanVars, exitVal, deployHist, stopReqs, stopCodes, listCalls,
                 topicDeletes, interruptedAt>>

\* if self.producer: self.producer.close()     (Producer.flush())
ClCloseProducer ==
  /\ pc = "cl_stopped"
  /\ \E o \in CallOutcomes :
       pc' = IF o = "ok" THEN "cl_producer_closed" ELSE "cl_done"
  /\ UNCHANGED <<envVars, remote, interrupts, stack, ctlVars, deployVars,
                 checkVars, cleanVars, exitVal, deployHist, cleanHist,
                 interruptedAt>>

\* if self.consumer: self.consumer.close()
ClCloseConsumer ==
  /\ pc = "cl_producer_closed"
  /\ \E o \in CallOutcomes :
       pc' = IF o = "ok" THEN "cl_closed" ELSE "cl_done"
  /\ UNCHANGED <<envVars, remote, interrupts, stack, ctlVars, deployVars,
                 checkVars, cleanVars, exitVal, deployHist, cleanHist,
                 interruptedAt>>

\* if full_cleanup: delete_topics()   (the deletion request is sent)
ClDelete ==
  /\ pc = "cl_closed"
  /\ IF full_cleanup
     THEN topicDeletes' = topicDeletes + 1 /\ pc' = "cl_deleting"
     ELSE UNCHANGED topicDeletes /\ pc' = "cl_done"
  /\ UNCHANGED <<envVars, remote, interrupts, stack, ctlVars, deployVars,
                 checkVars, cleanVars, exitVal, deployHist, stopReqs, stopCodes,
                 cleanupCalls, stmtCleanups, listCalls, interruptedAt>>

\* delete_topics() waits for the deletions and removes the schema subjects
ClDeleted ==
  /\ pc = "cl_deleting"
  /\ pc' = "cl_done"
  /\ UNCHANGED <<envVars, remote, interrupts, stack, ctlVars, deployVars,
                 checkVars, cleanVars, exitVal, deployHist, cleanHist,
                 interruptedAt>>

\* except Exception: print ; print("Cleanup completed")
ClDone ==
  /\ pc = "cl_done"
  /\ Return
  /\ UNCHANGED <<envVars, remote, interrupts, ctlVars, deployVars, checkVars,
                 cleanVars, exitVal, deployHist, cleanHist, interruptedAt>>

(* ------------------------------ topics.py ----------------------------- *)
\* topic names made from the clock at each call
get_topic_names_regenerated(id) ==
  <<[kind |-> "input", id |-> now], [kind |-> "output", id |-> now]>>

\* PipelineConfig.get_topic_names: input_<pipeline_id>, output_<pipeline_id>
get_topic_names(id) ==
  <<[kind |-> "input", id |-> id], [kind |-> "output", id |-> id]>>

\* the keys get_kafka_config and get_schema_registry_config read
KafkaKeys == {"BOOTSTRAP_SERVERS", "SASL_USERNAME", "SASL_PASSWORD"}
RegistryKeys ==
  {"SCHEMA_REGISTRY_ENDPOINT", "SCHEMA_REGISTRY_API_KEY",
   "SCHEMA_REGISTRY_API_SECRET"}

\* f"{topic_name}-value"
Subject(topic) == [topic |-> topic, suffix |-> "-value"]

\* what future.result(timeout=30) of a creation gives: nothing, an
\* exception whose text has "already exists" in it, any other exception
CreateOutcomes == {"ok", "already exists", "other"}
\* the same for a deletion ("does not exist") and for delete_subject
\* ("not found")
DeleteOutcomes == {"ok", "does not exist", "other"}
SubjectOutcomes == {"ok", "not found", "other"}

\* an Exception raised where the function in progress has no handler for
\* it: run_pipeline's `except Exception` returns False (and goes on to
\* the finally block); outside run_pipeline nothing catches it
RaiseException ==
  /\ stack' = <<>>
  /\ IF ctx = "try"
     THEN success' = "False" /\ pc' = "rp_finally" /\ UNCHANGED exitVal
     ELSE pc' = "exit" /\ exitVal' = "Exception" /\ UNCHANGED success

\* create_topics: validate_config, AdminClient(admin_conf),
\* futures = admin_client.create_topics(topics)
TcStart ==
  /\ pc = "tc_start"
  /\ IF ~validate_config(config)
     THEN /\ createRet' = "False"
          /\ pc' = "tc_ret"
          /\ UNCHANGED <<stack, success, exitVal, ti>>
     ELSE \E o \in CallOutcomes :
            IF o = "ok"
            THEN /\ ti' = 1
                 /\ pc' = "tc_wait"
                 /\ UNCHANGED <<stack, success, exitVal, createRet>>
            ELSE RaiseException /\ UNCHANGED <<ti, createRet>>
  /\ UNCHANGED <<config, sqlDir, now, sent, si, tOutcome, pipeline_id,
                 readyTopics, registered, deleteReqs, subjectDeletes, remote,
                 interrupts, ctx, pending, phasesRun, deployVars, checkVars,
                 cleanVars, deployHist, cleanHist, interruptedAt>>

\* a loop over the futures that takes every exception for a failure
TcWaitStrict ==
  /\ pc = "tc_wait"
  /\ \E o \in CreateOutcomes :
       /\ tOutcome' = o
       /\ IF o = "ok"
          THEN /\ readyTopics' = readyTopics \cup {get_topic_names(pipeline_id)[ti]}
               /\ IF ti = 2
                  THEN pc' = "rs_register" /\ si' = 1 /\ UNCHANGED ti
                  ELSE ti' = ti + 1 /\ UNCHANGED <<pc, si>>
               /\ UNCHANGED createRet
          ELSE /\ createRet' = "False"
               /\ pc' = "tc_ret"
               /\ UNCHANGED <<readyTopics, ti, si>>
  /\ UNCHANGED <<config, sqlDir, now, sent, pipeline_id, registered,
                 deleteReqs, subjectDeletes, remote, interrupts, stack, ctlVars,
                 deployVars, checkVars, cleanVars, exitVal, deployHist,
                 cleanHist, interruptedAt>>

\* for topic_name, future in futures.items(): future.result(timeout=30);
\* an exception with "already exists" in its text is printed and passed
\* over, any other returns False; after the loop: return register_schemas()
TcWait ==
  /\ pc = "tc_wait"
  /\ \E o \in CreateOutcomes :
       /\ tOutcome' = o
       /\ IF o \in {"ok", "already exists"}
          THEN /\ readyTopics' = readyTopics \cup {get_topic_names(pipeline_id)[ti]}
               /\ IF ti = 2
                  THEN pc' = "rs_register" /\ si' = 1 /\ UNCHANGED ti
                  ELSE ti' = ti + 1 /\ UNCHANGED <<pc, si>>
               /\ UNCHANGED createRet
          ELSE /\ createRet' = "False"
               /\ pc' = "tc_ret"
               /\ UNCHANGED <<readyTopics, ti, si>>
  /\ UNCHANGED <<config, sqlDir, now, sent, pipeline_id, registered,
                 deleteReqs, subjectDeletes, remote, interrupts, stack, ctlVars,
                 deployVars, checkVars, cleanVars, exitVal, deployHist,
                 cleanHist, interruptedAt>>

\* register_schemas: schema_client.register_schema for the input subject,
\* then for the output subject; an Exception (from the client's creation
\* or from a registration) is caught and returns False
RsRegister ==
  /\ pc = "rs_register"
  /\ \E o \in CallOutcomes :
       /\ tOutcome' = o
       /\ IF o = "ok"
          THEN /\ registered' =
                    registered \cup {Subject(get_topic_names(pipeline_id)[si])}
               /\ IF si = 2
                  THEN createRet' = "True" /\ pc' = "tc_ret" /\ UNCHANGED si
                  ELSE si' = si + 1 /\ UNCHANGED <<pc, createRet>>
          ELSE /\ createRet' = "False"
               /\ pc' = "tc_ret"
               /\ UNCHANGED <<registered, si>>
  /\ UNCHANGED <<config, sqlDir, now, sent, ti, pipeline_id, readyTopics,
                 deleteReqs, subjectDeletes, remote, interrupts, stack, ctlVars,
                 deployVars, checkVars, cleanVars, exitVal, deployHist,
                 cleanHist, interruptedAt>>

\* create_topics returns; its locals are gone
TcReturn ==
  /\ pc = "tc_ret"
  /\ ti' = 0 /\ si' = 0 /\ tOutcome' = "none"
  /\ Return
  /\ UNCHANGED <<config, sqlDir, now, sent, topicHist, remote, interrupts,
                 ctlVars, deployVars, checkVars, cleanVars, exitVal,
                 deployHist, cleanHist, interruptedAt>>

\* delete_topics: config.get_kafka_config() (a KeyError without its keys),
\* AdminClient(admin_conf),
\* futures = admin_client.delete_topics(list(topic_names.values()))
TdStart ==
  /\ pc = "td_start"
  /\ \E o \in CallOutcomes :
       IF o = "ok" /\ KafkaKeys \subseteq config
       THEN /\ deleteReqs' = deleteReqs \cup
                 {get_topic_names(pipeline_id)[k] : k \in 1..2}
            /\ ti' = 1
            /\ pc' = "td_wait"
            /\ UNCHANGED <<stack, success, exitVal>>
       ELSE RaiseException /\ UNCHANGED <<deleteReqs, ti>>
  /\ UNCHANGED <<config, sqlDir, now, sent, si, tOutcome, pipeline_id,
                 createRet, readyTopics, registered, subjectDeletes, remote,
                 interrupts, ctx, pending, phasesRun, deployVars, checkVars,
                 cleanVars, deployHist, cleanHist, interruptedAt>>

\* for topic_name, future in futures.items(): future.result(timeout=30);
\* every Exception is caught and printed.  After the loop the schema
\* registry client is made; an Exception from that is caught by the outer
\* handler and ends the function.
TdWait ==
  /\ pc = "td_wait"
  /\ \E o \in DeleteOutcomes :
       /\ tOutcome' = o
       /\ IF ti = 2
          THEN \E c \in CallOutcomes :
                 LET made == c = "ok" /\ RegistryKeys \subseteq config
                 IN /\ pc' = IF made THEN "td_subject" ELSE "td_ret"
                    /\ si' = IF made THEN 1 ELSE si
                    /\ ti' = 3
          ELSE ti' = ti + 1 /\ UNCHANGED <<pc, si>>
  /\ UNCHANGED <<config, sqlDir, now, sent, topicHist, remote, interrupts,
                 stack, ctlVars, deployVars, checkVars, cleanVars, exitVal,
                 deployHist, cleanHist, interruptedAt>>

\* for topic_name in topic_names.values():
\*     schema_client.delete_subject(f"{topic_name}-value")
\* every Exception is caught and printed
TdSubject ==
  /\ pc = "td_subject"
  /\ \E o \in SubjectOutcomes :
       /\ tOutcome' = o
       /\ subjectDeletes' =
            subjectDeletes \cup {Subject(get_topic_names(pipeline_id)[si])}
       /\ IF si = 2
          THEN pc' = "td_ret" /\ si' = 3
          ELSE si' = si + 1 /\ UNCHANGED pc
  /\ UNCHANGED <<config, sqlDir, now, sent, ti, pipeline_id, createRet,
                 readyTopics, registered, deleteReqs, remote, interrupts, stack,
                 ctlVars, deployVars, checkVars, cleanVars, exitVal,
                 deployHist, cleanHist, interruptedAt>>

\* delete_topics returns (None); its locals are gone
TdReturn ==
  /\ pc = "td_ret"
  /\ ti' = 0 /\ si' = 0 /\ tOutcome' = "none"
  /\ Return
  /\ UNCHANGED <<config, sqlDir, now, sent, topicHist, remote, interrupts,
                 ctlVars, deployVars, checkVars, cleanVars, exitVal,
                 deployHist, cleanHist, interruptedAt>>

(* --------------- run_pipeline.py: main, setup, run_pipeline ----------- *)
\* outcomes of a collaborator call that returns a truth value
StepOutcomes == {"True", "False", "raise"}

\* runner.setup(): validate_config, flink_manager.setup(), producer.setup(),
\* consumer.setup(); then run_pipeline enters its try block
MainSetup ==
  /\ pc = "main_start"
  /\ \E producerOk \in BOOLEAN, consumerOk \in BOOLEAN :
       IF validate_config(config) /\ ManagerSetup(config) /\ producerOk /\ consumerOk
       THEN /\ pc' = "rp_topics"
            /\ ctx' = "try"
            /\ UNCHANGED exitVal
       ELSE /\ pc' = "exit"
            /\ exitVal' = "False"
            /\ UNCHANGED ctx
  /\ UNCHANGED <<envVars, remote, interrupts, stack, pending, success,
                 phasesRun, deployVars, checkVars, cleanVars, deployHist,
                 cleanHist, interruptedAt>>

\* STEP 1: create_topics()
RpTopics ==
  /\ pc = "rp_topics"
  /\ Call("tc_start", "rp_topics_done")
  /\ UNCHANGED <<envVars, remote, interrupts, ctlVars, deployVars, checkVars,
                 cleanVars, exitVal, deployHist, cleanHist, interruptedAt>>

\* a run that deploys whatever create_topics returned
RpTopicsDoneIgnore ==
  /\ pc = "rp_topics_done"
  /\ phasesRun' = phasesRun \cup {"topics"}
  /\ Call("dp_load", "rp_deployed")
  /\ UNCHANGED <<envVars, remote, interrupts, ctx, pending, success,
                 deployVars, checkVars, cleanVars, exitVal, deployHist,
                 cleanHist, interruptedAt>>

\* STEP 1: if not create_topics(): return False
\* STEP 2: self.flink_manager.deploy_pipeline()
RpTopicsDone ==
  /\ pc = "rp_topics_done"
  /\ IF createRet = "True"
     THEN /\ phasesRun' = phasesRun \cup {"topics"}
          /\ Call("dp_load", "rp_deployed")
          /\ UNCHANGED success
     ELSE /\ success' = "False"
          /\ pc' = "rp_finally"
          /\ UNCHANGED <<stack, phasesRun>>
  /\ UNCHANGED <<envVars, remote, interrupts, ctx, pending, deployVars,
                 checkVars, cleanVars, exitVal, deployHist, cleanHist,
                 interruptedAt>>

\* a run that goes on to the events whatever deploy_pipeline returned
RpDeployedIgnore ==
  /\ pc = "rp_deployed"
  /\ phasesRun' = phasesRun \cup {"deploy"}
  /\ pc' = "rp_wait1"
  /\ UNCHANGED <<envVars, remote, interrupts, stack, ctx, pending, success,
                 deployVars, checkVars, cleanVars, exitVal, deployHist,
                 cleanHist, interruptedAt>>

\* if not self.flink_manager.deploy_pipeline(): return False
RpDeployed ==
  /\ pc = "rp_deployed"
  /\ IF deployRet = "True"
     THEN /\ phasesRun' = phasesRun \cup {"deploy"}
          /\ pc' = "rp_wait1"
          /\ UNCHANGED success
     ELSE /\ success' = "False"
          /\ pc' = "rp_finally"
          /\ UNCHANGED phasesRun
  /\ UNCHANGED <<envVars, remote, interrupts, stack, ctx, pending, deployVars,
                 checkVars, cleanVars, exitVal, deployHist, cleanHist,
                 interruptedAt>>

\* time.sleep(10)
RpWait1 ==
  /\ pc = "rp_wait1"
  /\ pc' = "rp_generate"
  /\ UNCHANGED <<envVars, remote, interrupts, stack, ctlVars, deployVars,
                 checkVars, cleanVars, exitVal, deployHist, cleanHist,
                 interruptedAt>>

\* STEP 3: if not self.producer.generate_events(): return False
RpGenerate ==
  /\ pc = "rp_generate"
  /\ \E o \in StepOutcomes :
       IF o = "True"
       THEN /\ phasesRun' = phasesRun \cup {"generate"}
            /\ pc' = "rp_wait2"
            /\ UNCHANGED success
       ELSE /\ success' = "False"
            /\ pc' = "rp_finally"
            /\ UNCHANGED phasesRun
  /\ UNCHANGED <<envVars, remote, interrupts, stack, ctx, pending, deployVars,
                 checkVars, cleanVars, exitVal, deployHist, cleanHist,
                 interruptedAt>>

\* time.sleep(20)
RpWait2 ==
  /\ pc = "rp_wait2"
  /\ pc' = "rp_consume"
  /\ UNCHANGED <<envVars, remote, interrupts, stack, ctlVars, deployVars,
                 checkVars, cleanVars, exitVal, deployHist, cleanHist,
                 interruptedAt>>

\* STEP 4: message_count, enriched_count = self.consumer.consume_messages(...)
\* return True if enriched_count > 0 else False; a raised Exception is
\* caught by `except Exception` and returns False
RpConsume ==
  /\ pc = "rp_consume"
  /\ \E o \in StepOutcomes :
       /\ success' = IF o = "True" THEN "True" ELSE "False"
       /\ phasesRun' = IF o = "raise" THEN phasesRun
                       ELSE phasesRun \cup {"consume"}
  /\ pc' = "rp_finally"
  /\ UNCHANGED <<envVars, remote, interrupts, stack, ctx, pending, deployVars,
                 checkVars, cleanVars, exitVal, deployHist, cleanHist,
                 interruptedAt>>

\* a finally block that does nothing
RpFinallyPass ==
  /\ pc = "rp_finally"
  /\ ctx' = "finally"
  /\ pc' = "rp_finally_end"
  /\ UNCHANGED <<envVars, remote, interrupts, stack, pending, success,
                 phasesRun, deployVars, checkVars, cleanVars, exitVal,
                 deployHist, cleanHist, interruptedAt>>

\* finally: self.cleanup(full_cleanup=True)
RpFinally ==
  /\ pc = "rp_finally"
  /\ ctx' = "finally"
  /\ full_cleanup' = TRUE
  /\ Call("cl_start", "rp_finally_end")
  /\ UNCHANGED <<envVars, remote, interrupts, pending, success, phasesRun,
                 deployVars, checkVars, listing, li, exitVal, deployHist,
                 cleanHist, interruptedAt>>

\* the finally block is done: a pending KeyboardInterrupt goes on to main's
\* `except KeyboardInterrupt`, a pending return gives main its `success`
RpFinallyEnd ==
  /\ pc = "rp_finally_end"
  /\ IF pending = "KeyboardInterrupt"
     THEN /\ pc' = "main_except_ki"
          /\ UNCHANGED <<exitVal, ctx>>
     ELSE /\ pc' = "exit"
          /\ exitVal' = success
          /\ ctx' = "bare"
  /\ UNCHANGED <<envVars, remote, interrupts, stack, pending, success,
                 phasesRun, deployVars, checkVars, cleanVars, deployHist,
                 cleanHist, interruptedAt>>

\* except KeyboardInterrupt: runner.cleanup(full_cleanup=False)
MainExceptKI ==
  /\ pc = "main_except_ki"
  /\ ctx' = "handler"
  /\ full_cleanup' = FALSE
  /\ Call("cl_start", "main_handled")
  /\ UNCHANGED <<envVars, remote, interrupts, pending, success, phasesRun,
                 deployVars, checkVars, listing, li, exitVal, deployHist,
                 cleanHist, interruptedAt>>

\* return False
MainHandled ==
  /\ pc = "main_handled"
  /\ pc' = "exit"
  /\ exitVal' = "False"
  /\ ctx' = "bare"
  /\ UNCHANGED <<envVars, remote, interrupts, stack, pending, success,
                 phasesRun, deployVars, checkVars, cleanVars, deployHist,
                 cleanHist, interruptedAt>>

(* ------------------------------ Ctrl-C -------------------------------- *)
\* statements that wait on the network, on the broker or on a sleep
Blocking ==
  \/ pc \in {"ex_post", "ck_get", "ck_sleep", "dp_settle",
             "tc_wait", "rs_register", "rp_wait1", "rp_generate", "rp_wait2",
             "cs_list", "cl_stopped", "cl_producer_closed", "cl_deleting",
             "cp_deleting"}
  \/ pc = "cs_loop" /\ li <= Len(listing) /\ Active(listing[li])

\* The handler a KeyboardInterrupt raised in context c reaches.  It is no
\* Exception, so no `except Exception` catches it: from run_pipeline's try
\* block it runs the finally block and is re-raised after it; from the
\* finally block it goes to main's `except KeyboardInterrupt`; from that
\* handler, or in flink_sql.py and cleanup.py, nothing catches it.
InterruptTarget(c) ==
  IF c = "try" THEN "rp_finally"
  ELSE IF c = "finally" THEN "main_except_ki"
  ELSE "exit"

Interrupt ==
  /\ Blocking
  /\ interrupts < MaxInterrupts
  /\ interrupts' = interrupts + 1
  /\ interruptedAt' = IF interruptedAt = "none" THEN pc ELSE interruptedAt
  /\ pc' = InterruptTarget(ctx)
  /\ stack' = <<>>
  /\ pending' = IF ctx = "try" THEN "KeyboardInterrupt" ELSE pending
  /\ exitVal' = IF pc' = "exit" THEN "KeyboardInterrupt" ELSE exitVal
  /\ DropDeployFrame
  /\ listing' = <<>>
  /\ li' = 0
  /\ stopCodes' = <<>>
  /\ ti' = 0 /\ si' = 0 /\ tOutcome' = "none"
  /\ UNCHANGED <<config, sqlDir, now, sent, topicHist, remote, ctx, success,
                 phasesRun, statements,
                 deployRet, full_cleanup, deployHist, stopReqs, cleanupCalls,
                 stmtCleanups, listCalls, topicDeletes>>

(* --------------------------- specifications --------------------------- *)
DeployParts == {Stmt(v) : v \in Verbs}
DeployFiles == [parts : {<<p>> : p \in DeployParts}, exists : BOOLEAN]
DeployConfigs == {FullConfig, FullConfig \ {"FLINK_ORG_ID"}}

InitCommon ==
  /\ now = StartTime
  /\ sent = <<>>
  /\ pipeline_id = RunId
  /\ ti = 0
  /\ si = 0
  /\ tOutcome = "none"
  /\ createRet = "none"
  /\ readyTopics = {}
  /\ registered = {}
  /\ deleteReqs = {}
  /\ subjectDeletes = {}
  /\ interrupts = 0
  /\ stack = <<>>
  /\ ctx = "bare"
  /\ pending = "none"
  /\ statements = <<>>
  /\ idx = 0
  /\ result = NoResult
  /\ insert_handles = <<>>
  /\ deployRet = "none"
  /\ statement_id = NoHandle
  /\ response = NoResponse
  /\ depth = 0
  /\ checkRet = FALSE
  /\ full_cleanup = FALSE
  /\ listing = <<>>
  /\ li = 0
  /\ success = "none"
  /\ exitVal = "none"
  /\ postCode = <<>>
  /\ lastPhase = <<>>
  /\ settleDelay = <<>>
  /\ execRet = <<>>
  /\ reports = <<>>
  /\ stopReqs = {}
  /\ stopCodes = <<>>
  /\ cleanupCalls = <<>>
  /\ stmtCleanups = 0
  /\ listCalls = 0
  /\ topicDeletes = 0
  /\ interruptedAt = "none"
  /\ phasesRun = {}

OtherStatements(k) == [i \in 1..k |-> Handle(OtherRun, i)]

\* one call of check_statement_status for a statement of this run, with
\* an engine that may answer PENDING/PROVISIONING any number of times
PlCall ==
  /\ pc = "pl_start"
  /\ statement_id' = Handle(RunId, 1)
  /\ lastPhase' = <<"none">>
  /\ depth' = 0
  /\ Call("ck_get", "pl_done")
  /\ UNCHANGED <<envVars, remote, interrupts, ctlVars, deployVars, response,
                 checkRet, cleanVars, exitVal, postCode, settleDelay, execRet,
                 reports, cleanHist, interruptedAt>>

\* the call has returned its value
PlReturn ==
  /\ pc = "pl_done"
  /\ pc' = "exit"
  /\ exitVal' = IF checkRet THEN "True" ELSE "False"
  /\ UNCHANGED <<envVars, remote, interrupts, stack, ctlVars, deployVars,
                 checkVars, cleanVars, deployHist, cleanHist, interruptedAt>>

InitPoll ==
  /\ InitCommon
  /\ pc = "pl_start"
  /\ config = FullConfig
  /\ sqlDir = <<>>
  /\ remote = <<Handle(RunId, 1)>>

NextPoll ==
  PlCall \/ CkGetWithin(RecursionLimit) \/ CkSleep \/ CkOverflow \/ PlReturn

SpecPoll == InitPoll /\ [][NextPoll]_vars

\* a name of n characters c
Rep(c, n) == [k \in 1..n |-> c]
\* the longest safe_name that goes into the payload name whole
FitLen == NameLimit - Len(Str(StartTime)) - 1

\* statement names load_sql_files gives the units of these files: short
\* ones, one with a dot in it, and ones as long as the name limit
NameInputs ==
  {<<"0", "1", "_", "a", ".", "s", "q", "l">>,
   <<"0", "1", "-", "A", ".", "s", "q", "l">>,
   <<"0", "2", "_", "b", ".", "s", "q", "l", "_", "p", "a", "r", "t", "_", "1">>,
   <<"0", "2", "_", "b", ".", "s", "q", "l", "_", "p", "a", "r", "t", "_", "2">>,
   <<"v", "1", ".", "2", ".", "s", "q", "l">>,
   Rep("q", FitLen) \o DotSql,
   Rep("q", FitLen + 1) \o DotSql,
   Rep("Q", FitLen + 1) \o DotSql \o <<"_", "p", "a", "r", "t", "_", "1">>}

\* execute_statement of either run makes the payload name of a unit: the
\* name is made from statement_name and the clock, nothing else
NmSubmit ==
  /\ pc = "nm_idle"
  /\ Len(sent) < MaxSubmits
  /\ \E run \in {RunId, OtherRun}, unit \in NameInputs :
       sent' = Append(sent, [run |-> run, unit |-> unit, at |-> now,
                             name |-> UniqueName(unit, now)])
  /\ UNCHANGED <<config, sqlDir, now, topicLocals, topicHist, remote,
                 interrupts, pc, stack, ctlVars,
                 deployVars, checkVars, cleanVars, exitVal, deployHist,
                 cleanHist, interruptedAt>>

\* a second passes
NmTick ==
  /\ pc = "nm_idle"
  /\ now < StartTime + MaxTicks
  /\ now' = now + 1
  /\ UNCHANGED <<config, sqlDir, sent, topicLocals, topicHist, remote,
                 interrupts, pc, stack, ctlVars,
                 deployVars, checkVars, cleanVars, exitVal, deployHist,
                 cleanHist, interruptedAt>>

InitName ==
  /\ InitCommon
  /\ pc = "nm_idle"
  /\ config = FullConfig
  /\ sqlDir = <<>>
  /\ remote = <<>>

NextName == NmSubmit \/ NmTick

SpecName == InitName /\ [][NextName]_vars

\* a process that creates the topics and, after the steps between, deletes
\* them, as run_pipeline does: create_topics() ... delete_topics()
TpCreate ==
  /\ pc = "tp_start"
  /\ Call("tc_start", "tp_created")
  /\ UNCHANGED <<envVars, remote, interrupts, ctlVars, deployVars, checkVars,
                 cleanVars, exitVal, deployHist, cleanHist, interruptedAt>>

\* the steps between take time
TpTick ==
  /\ pc = "tp_created"
  /\ now < StartTime + MaxTicks
  /\ now' = now + 1
  /\ UNCHANGED <<config, sqlDir, sent, topicLocals, topicHist, remote,
                 interrupts, pc, stack, ctlVars, deployVars, checkVars,
                 cleanVars, exitVal, deployHist, cleanHist, interruptedAt>>

TpDelete ==
  /\ pc = "tp_created"
  /\ Call("td_start", "tp_deleted")
  /\ UNCHANGED <<envVars, remote, interrupts, ctlVars, deployVars, checkVars,
                 cleanVars, exitVal, deployHist, cleanHist, interruptedAt>>

TpEnd ==
  /\ pc = "tp_deleted"
  /\ pc' = "exit"
  /\ exitVal' = "None"
  /\ UNCHANGED <<envVars, remote, interrupts, stack, ctlVars, deployVars,
                 checkVars, cleanVars, deployHist, cleanHist, interruptedAt>>

TopicConfigs == {FullConfig, FullConfig \ {"BOOTSTRAP_SERVERS"}}

InitTopics ==
  /\ InitCommon
  /\ pc = "tp_start"
  /\ config \in TopicConfigs
  /\ sqlDir = <<>>
  /\ remote = <<>>

CreateTopicsActions == TcStart \/ TcWait \/ RsRegister \/ TcReturn

DeleteTopicsActions == TdStart \/ TdWait \/ TdSubject \/ TdReturn

NextTopics ==
  \/ TpCreate \/ TpTick \/ TpDelete \/ TpEnd
  \/ CreateTopicsActions \/ DeleteTopicsActions

SpecTopics == InitTopics /\ [][NextTopics]_vars

\* python flink_sql.py
InitDeploy ==
  /\ InitCommon
  /\ pc = "fm_start"
  /\ config \in DeployConfigs
  /\ \E n \in 0..MaxUnits : sqlDir \in [1..n -> DeployFiles]
  /\ \E k \in 0..MaxOther : remote = OtherStatements(k)

DeployActions ==
  \/ DpLoad \/ DpNext \/ DpDone \/ DpExecuted \/ DpSettle \/ DpChecked
  \/ ExPost \/ ExChecked \/ CkGet \/ CkSleep

CleanupStatementsActions == CsList \/ CsStop \/ CsSkip \/ CsEnd \/ CsReturn

CleanupActions ==
  \/ ClStart \/ ClCloseProducer \/ ClCloseConsumer \/ ClDelete \/ ClDeleted
  \/ ClDone

RunActions ==
  \/ MainSetup \/ RpTopics \/ RpTopicsDone \/ RpDeployed \/ RpWait1
  \/ RpGenerate \/ RpWait2 \/ RpConsume \/ RpFinally \/ RpFinallyEnd \/ MainExceptKI \/ MainHandled

NextDeploy == FmSetup \/ FmDeployed \/ DeployActions \/ Interrupt

SpecDeploy == InitDeploy /\ [][NextDeploy]_vars

\* one manager whose deploy_pipeline is called twice, the files unchanged
RlFirst ==
  /\ pc = "rl_start"
  /\ Call("dp_load", "rl_second")
  /\ UNCHANGED <<envVars, remote, interrupts, ctlVars, deployVars, checkVars,
                 cleanVars, exitVal, deployHist, cleanHist, interruptedAt>>

RlSecond ==
  /\ pc = "rl_second"
  /\ Call("dp_load", "rl_done")
  /\ UNCHANGED <<envVars, remote, interrupts, ctlVars, deployVars, checkVars,
                 cleanVars, exitVal, deployHist, cleanHist, interruptedAt>>

RlEnd ==
  /\ pc = "rl_done"
  /\ pc' = "exit"
  /\ exitVal' = deployRet
  /\ UNCHANGED <<envVars, remote, interrupts, stack, ctlVars, deployVars,
                 checkVars, cleanVars, deployHist, cleanHist, interruptedAt>>

InitReload ==
  /\ InitCommon
  /\ pc = "rl_start"
  /\ config = FullConfig
  /\ remote = <<>>
  /\ \E n \in 0..MaxUnits : sqlDir \in [1..n -> DeployFiles]

NextReload == RlFirst \/ RlSecond \/ RlEnd \/ DeployActions

SpecReload == InitReload /\ [][NextReload]_vars

\* what a piece of a file between two ';' can be: a statement, a comment
\* longer than MinLen with no keyword in it, a text with a keyword that is
\* not longer than MinLen, and nothing (after the last ';')
LoadParts ==
  {Stmt("CREATE"), Stmt("INSERT"),
   [head |-> "OTHER", kw |-> FALSE, len |-> MinLen + 1],
   [head |-> "CREATE", kw |-> TRUE, len |-> MinLen],
   [head |-> "OTHER", kw |-> FALSE, len |-> 0]}

RECURSIVE SumSeq(_)
SumSeq(q) == IF q = <<>> THEN 0 ELSE Head(q) + SumSeq(Tail(q))

\* the directory whose n files have lens[k] parts each, the parts being
\* those of flat in order
DirOf(lens, flat) ==
  [k \in 1..Len(lens) |->
     [parts  |-> SubSeq(flat, SumSeq(SubSeq(lens, 1, k - 1)) + 1,
                              SumSeq(SubSeq(lens, 1, k))),
      exists |-> TRUE]]

\* python flink_sql.py over files of several parts
InitLoad ==
  /\ InitCommon
  /\ pc = "fm_start"
  /\ config = FullConfig
  /\ remote = <<>>
  /\ \E n \in 0..MaxLoadFiles :
       \E lens \in [1..n -> 1..MaxLoadParts] :
         /\ SumSeq(lens) <= MaxLoadParts
         /\ \E flat \in [1..SumSeq(lens) -> LoadParts] :
              sqlDir = DirOf(lens, flat)

SpecLoad == InitLoad /\ [][NextDeploy]_vars

\* python flink_sql.py with a .env file that has every key, or lacks one
\* (PIPELINE_ID is made up by setup_environment when the file lacks it)
SetupConfigs ==
  {FullConfig} \cup {FullConfig \ {k} : k \in FullConfig \ {"PIPELINE_ID"}}

InitSetup ==
  /\ InitCommon
  /\ pc = "fm_start"
  /\ config \in SetupConfigs
  /\ sqlDir \in [1..1 -> DeployFiles]
  /\ remote = <<>>

SpecSetup == InitSetup /\ [][NextDeploy]_vars

\* python cleanup.py: the engine holds statements of this run (left by an
\* earlier deployment) and of the other run, in either order
InitCleanup ==
  /\ InitCommon
  /\ pc = "cp_start"
  /\ config \in DeployConfigs
  /\ sqlDir = <<>>
  /\ \E a \in 0..MaxUnits, b \in 0..MaxOther, mineFirst \in BOOLEAN :
       LET mine == [i \in 1..a |-> Handle(RunId, i)]
       IN remote = IF mineFirst THEN mine \o OtherStatements(b)
                   ELSE OtherStatements(b) \o mine

NextCleanup ==
  CpStart \/ CpDelete \/ CpDeleted \/ CleanupStatementsActions \/ Interrupt

SpecCleanup == InitCleanup /\ [][NextCleanup]_vars

\* python run_pipeline.py
Init ==
  /\ InitCommon
  /\ pc = "main_start"
  /\ config \in DeployConfigs
  /\ \E n \in 0..MaxRunUnits : sqlDir \in [1..n -> DeployFiles]
  /\ \E k \in 0..MaxOther : remote = OtherStatements(k)

Next ==
  \/ RunActions \/ CreateTopicsActions \/ DeployActions \/ CleanupActions
  \/ CleanupStatementsActions \/ Interrupt

Spec == Init /\ [][Next]_vars

(* ------------------------------ properties ---------------------------- *)
\* C1: if execute_statement returns False for unit i, no unit j > i is ever
\* submitted, and once deploy_pipeline has left the branch on the result it
\* has returned False and its failure line names unit i (and no other).
C1_FailedSubmissionStopsDeployment ==
  \A i \in DOMAIN execRet :
    execRet[i] = "False" =>
      /\ \A j \in DOMAIN postCode : j > i => postCode[j] = "none"
      /\ pc # "dp_executed" =>
           /\ deployRet = "False"
           /\ reports = <<statements[i].name>>

\* C1 witness: the first of two units failed its submission, the second
\* was never posted, and deploy_pipeline returned False
C1_Witness ==
  /\ Len(statements) = 2
  /\ execRet[1] = "False"
  /\ postCode[2] = "none"
  /\ deployRet = "False"
  /\ pc = "exit"

\* C2: a process that started run_pipeline (it has a return value for it,
\* or was interrupted in it) does not end without PipelineRunner.cleanup,
\* and with it cleanup_statements, having been called.
C2_CleanupOnEveryExit ==
  (pc = "exit" /\ (success # "none" \/ interruptedAt # "none")) =>
     Len(cleanupCalls) >= 1 /\ stmtCleanups >= 1

\* C2 witness: Ctrl-C during a status poll of deploy_pipeline, and the
\* process ended after cleanup was called
C2_Witness ==
  /\ pc = "exit"
  /\ interruptedAt \in {"ck_get", "ck_sleep"}
  /\ Len(cleanupCalls) >= 1
  /\ stmtCleanups >= 1

\* C3: unit i+1 is submitted only after a status query has observed unit i
\* in RUNNING, COMPLETED or an unrecognised phase, whatever the successful
\* answer to unit i's submission was (409 included); and at most one unit
\* is submitted and not yet so observed.
C3_NextAfterTerminal ==
  /\ \A i \in DOMAIN postCode :
       (i + 1 \in DOMAIN postCode /\ postCode[i + 1] # "none") =>
          lastPhase[i] \in {"RUNNING", "COMPLETED", "UNKNOWN", "DEGRADED"}
  /\ Cardinality({i \in DOMAIN postCode :
                    postCode[i] \in {"201", "409"}
                    /\ lastPhase[i] \notin
                         {"RUNNING", "COMPLETED", "UNKNOWN", "DEGRADED"}}) <= 1

\* C4: deploy_pipeline returns True only if every loaded unit was submitted
\* with a success answer and seen by a status query in RUNNING, COMPLETED
\* or an unrecognised phase.
C4_TrueMeansAllTerminal ==
  deployRet = "True" =>
    \A i \in DOMAIN postCode :
      /\ postCode[i] \in {"201", "409"}
      /\ lastPhase[i] \in {"RUNNING", "COMPLETED", "UNKNOWN", "DEGRADED"}

\* C5: cleanup_statements of this run sends a stop request only for
\* statements of this run, never for one of the other run.
C5_StopsOnlyOwnStatements ==
  \A h \in stopReqs : h.owner = RunId

\* C6: when cleanup_statements is about to return after listing, a stop
\* request has been sent for every RUNNING/PENDING entry of the listing,
\* whatever the answers to the earlier stop requests were.
C6_StopFailureIsSkipped ==
  pc = "cs_ret" =>
    \A k \in DOMAIN listing :
      Active(listing[k]) => listing[k].statement_handle \in stopReqs

\* C7: a run that created its topics and then got a KeyboardInterrupt
\* while run_pipeline was executing never sends a delete_topics request.
C7_InterruptKeepsTopics ==
  (interruptedAt # "none" /\ "topics" \in phasesRun) => topicDeletes = 0

\* C8: a status query has been answered for a unit only if the settle
\* delay of that unit has been slept before.
C8_SettleBeforeFirstQuery ==
  \A i \in DOMAIN lastPhase :
    lastPhase[i] # "none" => settleDelay[i] > 0

\* C9: once deploy_pipeline is past a freshly created unit (the next unit
\* is posted, or it returned True), the unit's settle delay was 5 s for
\* ALTER, 10 s for CREATE and 8 s for anything else.
C9_SettleByVerb ==
  \A i \in DOMAIN postCode :
    (/\ postCode[i] = "201"
     /\ \/ deployRet = "True"
        \/ i + 1 \in DOMAIN postCode /\ postCode[i + 1] # "none") =>
       settleDelay[i] = IF statements[i].sql.head = "ALTER" THEN 5
                        ELSE IF statements[i].sql.head = "CREATE" THEN 10
                        ELSE 8

\* C10: check_statement_status, on a 200 answer, has returned True for
\* RUNNING, COMPLETED and any phase other than FAILED, PENDING and
\* PROVISIONING (a missing phase included), has returned False for FAILED,
\* and for PENDING or PROVISIONING has not returned: it sleeps to query
\* again, and it sleeps for no other answer.
C10_PhaseClassification ==
  /\ (pc \in {"ex_checked", "dp_checked"} /\ response.code = "200") =>
       /\ response.phase \notin {"PENDING", "PROVISIONING"}
       /\ response.phase = "FAILED" => ~checkRet
       /\ response.phase # "FAILED" => checkRet
  /\ pc = "ck_sleep" =>
       /\ response.code = "200"
       /\ response.phase \in {"PENDING", "PROVISIONING"}
       /\ Head(stack) \in {"ex_checked", "dp_checked"}

\* C10 witness: the poll returned True for a phase the code does not name,
\* after one PENDING/PROVISIONING answer
C10_Witness ==
  /\ pc = "ex_checked"
  /\ response = [code |-> "200", phase |-> "DEGRADED"]
  /\ checkRet
  /\ depth = 1

\* C11: check_statement_status returns only after the engine has given an
\* answer other than PENDING/PROVISIONING (another phase, a non-200 status
\* or a failed request): as long as every answer was PENDING or
\* PROVISIONING, however many there were, it has not returned.
C11_PollsUntilTerminalAnswer ==
  pc \in {"pl_done", "exit"} => lastPhase[1] \notin NonTerminal

\* C12: when the status query fails (a status other than 200, or a raised
\* exception), also after PENDING/PROVISIONING retries, the caller of
\* check_statement_status gets False as a return value: control is at the
\* caller's next statement, not in an exception.
C12_FailedQueryReturnsFalse ==
  /\ (pc \in {"ex_checked", "dp_checked"} /\ response.code \in {"500", "exc"}) =>
       ~checkRet
  /\ \A i \in DOMAIN lastPhase :
       (lastPhase[i] \in {"500", "exc"} /\ interruptedAt = "none") =>
          \/ pc \in {"ex_checked", "dp_checked", "dp_executed"} /\ idx = i
          \/ deployRet = "False" /\ reports = <<statements[i].name>>

\* C12 witness: the query raised after one PENDING/PROVISIONING retry and
\* deploy_pipeline has False in hand
C12_Witness ==
  /\ pc = "dp_checked"
  /\ response.code = "exc"
  /\ depth >= 1
  /\ ~checkRet

\* C13: execute_statement returns a success value (True or the handle) for
\* every POST answered 200/201 and for every POST answered 409, and it
\* returns the handle only when the answer was 200/201.
C13_CreatedAndExistingSucceed ==
  \A i \in DOMAIN execRet :
    /\ (postCode[i] \in {"201", "409"} /\ execRet[i] # "none") =>
         execRet[i] \in {"True", "str"}
    /\ execRet[i] = "str" => postCode[i] = "201"

\* C14: a POST answered with a status other than 200, 201 and 409, or one
\* that raised, makes execute_statement return False; no later unit is
\* posted and deploy_pipeline returns False.
C14_OtherStatusAborts ==
  \A i \in DOMAIN postCode :
    postCode[i] \in {"400", "exc"} =>
      /\ execRet[i] = "False"
      /\ \A j \in DOMAIN postCode : j > i => postCode[j] = "none"
      /\ deployRet \in {"none", "False"}
      /\ pc \in {"fm_deployed", "exit"} => deployRet = "False"

\* C14 witness: the POST of the first of two units raised; the deployment
\* ended with False and the second unit unposted
C14_Witness ==
  /\ Len(statements) = 2
  /\ postCode = <<"exc", "none">>
  /\ execRet[1] = "False"
  /\ exitVal = "False"

\* C15: when the last status query for unit i answered FAILED, a status
\* other than 200, or raised, no unit after i is posted, and once
\* deploy_pipeline has acted on it, it has returned False with unit i's
\* name in its failure line.
C15_FailedPollAborts ==
  \A i \in DOMAIN lastPhase :
    lastPhase[i] \in {"FAILED", "500", "exc"} =>
      /\ \A j \in DOMAIN postCode : j > i => postCode[j] = "none"
      /\ deployRet \in {"none", "False"}
      /\ pc \notin {"ex_checked", "dp_checked", "dp_executed"} =>
           /\ deployRet = "False"
           /\ reports = <<statements[i].name>>

\* C15 witness: the first of two units was created, its status query
\* answered FAILED, and the deployment ended with False
C15_Witness ==
  /\ Len(statements) = 2
  /\ postCode = <<"201", "none">>
  /\ lastPhase[1] = "FAILED"
  /\ deployRet = "False"
  /\ pc = "exit"

\* C16: any two distinct submissions get distinct payload names: the same
\* unit submitted by two runs, and the same unit submitted again by one
\* run, never get the same name.
C16_DistinctNames ==
  \A i, j \in DOMAIN sent :
    i # j => sent[i].name # sent[j].name

\* C17: a request (submit, poll, list or stop) is sent only when every
\* required value is configured: broker address and credentials, engine
\* endpoint and credentials, organisation, environment, compute pool,
\* catalog, database, schema-registry endpoint and credentials.
C17_NoRequestWithoutConfig ==
  (\/ \E i \in DOMAIN postCode : postCode[i] # "none"
   \/ \E i \in DOMAIN lastPhase : lastPhase[i] # "none"
   \/ listCalls > 0
   \/ stopReqs # {}) =>
     {"BOOTSTRAP_SERVERS", "SASL_USERNAME", "SASL_PASSWORD",
      "FLINK_REST_ENDPOINT", "FLINK_API_KEY", "FLINK_API_SECRET",
      "FLINK_ORG_ID", "CONFLUENT_CLOUD_ENVIRONMENT_ID",
      "FLINK_COMPUTE_POOL_ID", "SQL_CURRENT_CATALOG", "SQL_CURRENT_DATABASE",
      "SCHEMA_REGISTRY_ENDPOINT", "SCHEMA_REGISTRY_API_KEY",
      "SCHEMA_REGISTRY_API_SECRET"} \subseteq config

\* positions of the parts of file f that pass the filter: non-empty,
\* with a keyword, longer than the minimum length
GoodParts(f) ==
  {k \in 1..Len(sqlDir[f].parts) :
     LET part == sqlDir[f].parts[k]
     IN part.len > 0 /\ part.kw /\ part.len > MinLen}

\* the i-th smallest position of GoodParts(f)
NthGood(f, i) ==
  CHOOSE k \in GoodParts(f) : Cardinality({m \in GoodParts(f) : m < k}) = i - 1

\* the units of self.statements that come from file f, in list order
UnitsOf(f) == SelectSeq(statements, LAMBDA u : u.name.file = f)

\* load_sql_files has run
Loaded == pc \notin {"fm_start", "dp_load"}

\* load_sql_files has just returned True to deploy_pipeline
JustLoaded == pc = "dp_loop" /\ idx = 1

\* C18: the units are listed, and submitted, in the authoritative order:
\* every unit of a file before any unit of a file later in the sort
\* order, the units of one file by their position, and no unit is posted
\* before the units listed ahead of it.
C18_SubmittedInFileOrder ==
  /\ \A i, j \in DOMAIN statements :
       i < j =>
         \/ statements[i].name.file < statements[j].name.file
         \/ /\ statements[i].name.file = statements[j].name.file
            /\ statements[i].name.part < statements[j].name.part
  /\ \A i, j \in DOMAIN postCode :
       (i < j /\ postCode[j] # "none") => postCode[i] # "none"

\* C18 witness: two units of the first file and one of the second, all
\* three submitted
C18_Witness ==
  /\ Len(statements) = 3
  /\ statements[1].name.file = 1
  /\ statements[2].name.file = 1
  /\ statements[3].name.file = 2
  /\ postCode[3] # "none"

\* C19: a file whose text splits into N parts of which K pass the filter
\* gives exactly K units, the i-th of them holding the i-th passing part;
\* with K > 1 the i-th unit is named <file>_part_<i>, with K = 1 the unit
\* is named <file>.
C19_UnitsPerFile ==
  JustLoaded =>
    \A f \in DOMAIN sqlDir :
      LET K == Cardinality(GoodParts(f))
      IN /\ Len(UnitsOf(f)) = K
         /\ \A i \in 1..K :
              /\ UnitsOf(f)[i].sql = sqlDir[f].parts[NthGood(f, i)]
              /\ UnitsOf(f)[i].name.part = IF K > 1 THEN i ELSE 0

\* C19 witness: a file of three parts whose first part does not pass the
\* filter gave the units _part_1 and _part_2
C19_Witness ==
  /\ JustLoaded
  /\ Len(sqlDir) = 1
  /\ GoodParts(1) = {2, 3}
  /\ Len(statements) = 2
  /\ statements[1].name.part = 1
  /\ statements[2].name.part = 2

\* C20: a file none of whose parts pass the filter adds no unit and is no
\* error: when load_sql_files returns, no unit belongs to it and the units
\* of the other files are all loaded; no submission is ever made for a
\* unit of such a file; and the deployment returns False only when a unit
\* failed.
C20_FilteredFileIsSkipped ==
  /\ JustLoaded =>
       \A f \in DOMAIN sqlDir :
         GoodParts(f) = {} =>
           /\ \A i \in DOMAIN statements : statements[i].name.file # f
           /\ \A g \in DOMAIN sqlDir :
                Len(UnitsOf(g)) = Cardinality(GoodParts(g))
  /\ \A i \in DOMAIN postCode :
       postCode[i] # "none" => GoodParts(statements[i].name.file) # {}
  /\ deployRet = "False" =>
       \E i \in DOMAIN statements :
         \/ execRet[i] = "False"
         \/ lastPhase[i] \in {"FAILED", "500", "exc"}

\* C20 witness: the first file holds only a comment, the second a
\* statement; the deployment returned True with that statement created
C20_Witness ==
  /\ Len(sqlDir) = 2
  /\ GoodParts(1) = {}
  /\ sqlDir[1].parts[1].len > 0
  /\ GoodParts(2) # {}
  /\ deployRet = "True"
  /\ postCode = <<"201">>

\* C21: when a file of the directory is gone as load_sql_files comes to
\* it, the load fails: no unit is ever submitted, those of the files loaded
\* before the missing one included, and deploy_pipeline returns False.
C21_MissingFileStopsDeployment ==
  (\E f \in DOMAIN sqlDir : ~sqlDir[f].exists) =>
     /\ \A i \in DOMAIN postCode : postCode[i] = "none"
     /\ deployRet \in {"none", "False"}
     /\ pc \notin {"fm_start", "dp_load"} =>
          \/ deployRet = "False"
          \/ ~ManagerSetup(config)

\* C21 witness: the first file gave a unit, the second is gone; the
\* deployment ended with False and the unit unposted
C21_Witness ==
  /\ Len(sqlDir) = 2
  /\ sqlDir[1].exists
  /\ ~sqlDir[2].exists
  /\ Len(statements) = 1
  /\ postCode = <<"none">>
  /\ deployRet = "False"
  /\ exitVal = "False"

\* C22: every payload name is at most 100 characters long and ends with a
\* hyphen and the whole timestamp of its submission; what precedes them is
\* the cleaned statement name, whole when that fits and cut at its end
\* when it does not.
C22_NameFitsAndKeepsTimestamp ==
  \A i \in DOMAIN sent :
    LET name == sent[i].name
        ts == Str(sent[i].at)
        safe == SafeName(sent[i].unit)
        baseLen == Len(name) - Len(ts) - 1
    IN /\ Len(name) <= 100
       /\ baseLen >= 0
       /\ SubSeq(name, baseLen + 1, Len(name)) = <<"-">> \o ts
       /\ SubSeq(name, 1, baseLen) = SubSeq(safe, 1, baseLen)
       /\ Len(safe) + 1 + Len(ts) <= 100 => baseLen = Len(safe)

\* C22 witness: a statement name whose cleaned form is one character too
\* long was submitted, and its payload name is exactly 100 characters
C22_Witness ==
  \E i \in DOMAIN sent :
    /\ Len(SafeName(sent[i].unit)) + 1 + Len(Str(sent[i].at)) = 101
    /\ Len(sent[i].name) = 100

\* C23: every payload name consists of lower-case letters, digits and
\* hyphens only.
C23_NameCharset ==
  \A i \in DOMAIN sent :
    \A k \in DOMAIN sent[i].name :
      \/ \E m \in DOMAIN Lowers : sent[i].name[k] = Lowers[m]
      \/ \E m \in DOMAIN DigitChars : sent[i].name[k] = DigitChars[m]
      \/ sent[i].name[k] = "-"

\* C24: a cleanup_statements whose listing has no entry with status
\* RUNNING or PENDING (the empty listing included) sends no stop request,
\* and it comes to its end by running out of entries, not by an error.
C24_NothingActiveNothingStopped ==
  (/\ pc \in {"cs_loop", "cs_ret"}
   /\ listCalls = 1
   /\ \A k \in DOMAIN listing : listing[k].status \notin {"RUNNING", "PENDING"}) =>
     /\ stopReqs = {}
     /\ stopCodes = <<>>
     /\ pc = "cs_ret" => li = Len(listing) + 1

\* C24 witness: two statements were listed, neither RUNNING nor PENDING,
\* and cleanup_statements is at its end with no stop request sent
C24_Witness ==
  /\ pc = "cs_ret"
  /\ listCalls = 1
  /\ Len(listing) = 2
  /\ \A k \in DOMAIN listing : listing[k].status \notin {"RUNNING", "PENDING"}
  /\ li = 3
  /\ stopReqs = {}

\* C25: when cleanup_statements is at its end, its list request and all
\* its stop requests having been answered 200, every statement of the run
\* that was listed as PENDING, PROVISIONING or RUNNING has been sent a
\* stop request and is gone from the engine.
C25_NoActiveStatementLeft ==
  (/\ pc = "cs_ret"
   /\ listCalls = 1
   /\ \A k \in DOMAIN stopCodes : stopCodes[k] = "200") =>
     \A k \in DOMAIN listing :
       (/\ listing[k].statement_handle.owner = RunId
        /\ listing[k].status \in {"PENDING", "PROVISIONING", "RUNNING"}) =>
          /\ listing[k].statement_handle \in stopReqs
          /\ \A m \in DOMAIN remote : remote[m] # listing[k].statement_handle

\* C26: deploy_pipeline sends no stop request: whatever it returns, every
\* statement it created is still on the engine, the INSERT statements that
\* were seen RUNNING among them.
C26_DeployStopsNothing ==
  /\ stopReqs = {}
  /\ \A i \in DOMAIN postCode :
       postCode[i] = "201" => \E m \in DOMAIN remote : remote[m] = Handle(RunId, i)

\* C26 witness: the first unit, an INSERT, was created and seen RUNNING
\* after its settle delay; the second unit failed; deploy_pipeline returned
\* False and the INSERT statement is still on the engine
C26_Witness ==
  /\ Len(statements) = 2
  /\ statements[1].sql.head = "INSERT"
  /\ postCode[1] = "201"
  /\ settleDelay[1] > 0
  /\ lastPhase[1] = "RUNNING"
  /\ execRet[2] = "False"
  /\ deployRet = "False"
  /\ pc = "exit"
  /\ \E m \in DOMAIN remote : remote[m] = Handle(RunId, 1)

\* C27: while events are generated or consumed (and in the waits between)
\* deploy_pipeline has returned True and none of its calls is in progress;
\* while a unit is submitted or polled no event step has run; and after a
\* deployment that returned False no event step runs.
C27_EventsAfterDeployment ==
  /\ pc \in {"rp_wait1", "rp_generate", "rp_wait2", "rp_consume"} =>
       /\ deployRet = "True"
       /\ "deploy" \in phasesRun
       /\ stack = <<>>
       /\ idx = 0 /\ statement_id = NoHandle
  /\ pc \in {"dp_load", "dp_loop", "ex_post", "ex_checked", "dp_executed",
              "dp_settle", "dp_checked", "ck_get", "ck_sleep"} =>
       /\ phasesRun \cap {"generate", "consume"} = {}
       /\ deployRet = "none"
  /\ deployRet # "True" => phasesRun \cap {"generate", "consume"} = {}

\* C27 witness: the one unit was created and the deployment returned True;
\* the events were generated and the run is consuming the results
C27_Witness ==
  /\ pc = "rp_consume"
  /\ postCode = <<"201">>
  /\ deployRet = "True"
  /\ "generate" \in phasesRun

\* C28: a run whose run_pipeline ended with False (a step failed, or an
\* Exception was caught), with no Ctrl-C, sends no delete_topics request:
\* topics are deleted only after a run that returned True.
C28_TopicsDeletedOnlyOnSuccess ==
  (interruptedAt = "none" /\ success = "False") => topicDeletes = 0

\* C29: when PipelineRunner.cleanup(full_cleanup=True) is at its end in a
\* run with no Ctrl-C, delete_topics has been called, whichever of the
\* steps before it raised.
C29_CleanupStepsIndependent ==
  (pc = "cl_done" /\ full_cleanup /\ interruptedAt = "none") => topicDeletes >= 1

\* C30: as long as no stop request of a cleanup_statements call raised,
\* whatever statuses the stop requests were answered with, every RUNNING
\* or PENDING entry the loop has passed was sent one stop request, and the
\* call ends only with the whole listing passed.
C30_FailedStopIsNoOp ==
  (/\ pc \in {"cs_loop", "cs_ret"}
   /\ listCalls = 1
   /\ \A k \in DOMAIN stopCodes : stopCodes[k] # "exc") =>
     LET passed == {k \in DOMAIN listing :
                      k < li /\ listing[k].status \in {"RUNNING", "PENDING"}}
     IN /\ \A k \in passed : listing[k].statement_handle \in stopReqs
        /\ Len(stopCodes) = Cardinality(passed)
        /\ pc = "cs_ret" => li = Len(listing) + 1

\* C30 witness: the first stop request was answered "not found"; the
\* loop went on, the next entry was sent its stop request, and the call
\* is at its end
C30_Witness ==
  /\ pc = "cs_ret"
  /\ Len(listing) >= 2
  /\ Len(stopCodes) >= 2
  /\ stopCodes[1] = "404"
  /\ stopCodes[2] = "200"
  /\ li = Len(listing) + 1
  /\ \A k \in DOMAIN listing :
       listing[k].status \in {"RUNNING", "PENDING"} =>
         listing[k].statement_handle \in stopReqs

\* the two topics of the run and their schema subjects
BothTopics == {[kind |-> k, id |-> pipeline_id] : k \in {"input", "output"}}
BothSubjects == {[topic |-> t, suffix |-> "-value"] : t \in BothTopics}

\* C31: in create_topics an "already exists" answer does not end the wait
\* for the topics, and any other creation error ends it with False and no
\* schema registered; schemas are registered only with both topics created
\* or existing, and True is returned only with both schemas registered.
\* In delete_topics no answer for a topic or a subject ends the work: both
\* deletions are waited for, and once the registry client is there
\* delete_subject is called for both subjects.
C31_TopicAdminIdempotent ==
  /\ (pc \in {"tc_wait", "rs_register", "tc_ret"} /\ tOutcome = "already exists") =>
       /\ pc # "tc_ret"
       /\ createRet = "none"
       /\ readyTopics # {}
  /\ (pc = "tc_ret" /\ tOutcome = "other") =>
       /\ createRet = "False"
       /\ registered = {}
  /\ registered # {} => readyTopics = BothTopics
  /\ createRet = "True" => registered = BothSubjects
  /\ (pc \in {"td_wait", "td_subject"} /\ tOutcome # "none") => ti + si >= 2
  /\ pc = "td_ret" =>
       /\ ti = 3
       /\ deleteReqs = BothTopics
       /\ si \in {0, 3}
       /\ si = 3 => subjectDeletes = BothSubjects

\* C31 witness: the second topic already existed, and create_topics has
\* gone on to register the schemas with both topics ready
C31_Witness ==
  /\ pc = "rs_register"
  /\ tOutcome = "already exists"
  /\ readyTopics = BothTopics
  /\ createRet = "none"

\* C32: the second load on one manager, the files unchanged, leaves
\* self.statements equal to the list the first load produced.
C32_ReloadDoesNotAccumulate ==
  [][(pc = "dp_load" /\ stack = <<"rl_done">>) => statements' = statements]_vars

\* C32 witness: the second load has returned, with the two units of the
\* two files in self.statements
C32_Witness ==
  /\ pc = "dp_loop"
  /\ idx = 1
  /\ stack = <<"rl_done">>
  /\ Len(statements) = 2
  /\ statements[1].name.file = 1
  /\ statements[2].name.file = 2

\* C33: config.pipeline_id never changes, and what delete_topics targets
\* is what create_topics of the same process made: every topic created or
\* found existing is among the topics asked to be deleted, every subject
\* registered among the subjects deleted, and after a create_topics that
\* returned True the two are the same sets.
C33_RunIdentityFixed ==
  /\ pipeline_id = RunId
  /\ deleteReqs # {} =>
       /\ readyTopics \subseteq deleteReqs
       /\ createRet = "True" => deleteReqs = readyTopics
  /\ (pc = "td_ret" /\ si = 3) =>
       /\ registered \subseteq subjectDeletes
       /\ createRet = "True" => subjectDeletes = registered

\* C33 witness: both topics and subjects were made, a second passed, and
\* delete_topics has asked for the same topics and subjects to be deleted
C33_Witness ==
  /\ pc = "td_ret"
  /\ now > StartTime
  /\ createRet = "True"
  /\ Cardinality(readyTopics) = 2
  /\ deleteReqs = readyTopics
  /\ Cardinality(registered) = 2
  /\ subjectDeletes = registered

\* C34: PipelineRunner.cleanup, and with it the round of list and stop
\* requests, is never started a second time in one process, and a process
\* that started run_pipeline ends with exactly one call made.
\* (Stated for the runs in which no Ctrl-C arrives while cleanup itself is
\* running.)
C34_CleanupExactlyOnce ==
  interruptedAt \notin {"cs_list", "cs_loop", "cl_stopped",
                        "cl_producer_closed", "cl_deleting"} =>
    /\ Len(cleanupCalls) <= 1
    /\ stmtCleanups <= 1
    /\ listCalls <= 1
    /\ (pc = "exit" /\ (success # "none" \/ interruptedAt # "none")) =>
         Len(cleanupCalls) = 1

\* C35: deploy_pipeline goes past a freshly created INSERT unit (it posts
\* the next unit, or returns True) only when the poll inside
\* execute_statement succeeded (the handle was returned) and the poll after
\* the settle sleep succeeded too; when the first succeeded and the second
\* answered FAILED, no later unit is posted and the deployment returns
\* False.
C35_InsertPolledTwice ==
  \A i \in DOMAIN postCode :
    (postCode[i] = "201" /\ statements[i].sql.head = "INSERT") =>
      /\ (\/ deployRet = "True"
          \/ i + 1 \in DOMAIN postCode /\ postCode[i + 1] # "none") =>
           /\ execRet[i] = "str"
           /\ settleDelay[i] > 0
           /\ lastPhase[i] \in {"RUNNING", "COMPLETED", "UNKNOWN", "DEGRADED"}
      /\ (execRet[i] = "str" /\ settleDelay[i] > 0 /\ lastPhase[i] = "FAILED") =>
           /\ \A j \in DOMAIN postCode : j > i => postCode[j] = "none"
           /\ deployRet \in {"none", "False"}
           /\ pc \notin {"ck_get", "ck_sleep", "dp_checked"} => deployRet = "False"

\* C35 witness: the first unit, an INSERT, was created and its first poll
\* succeeded; the poll after the settle sleep answered FAILED; the
\* deployment returned False with the second unit unposted
C35_Witness ==
  /\ Len(statements) = 2
  /\ statements[1].sql.head = "INSERT"
  /\ postCode = <<"201", "none">>
  /\ execRet[1] = "str"
  /\ settleDelay[1] > 0
  /\ lastPhase[1] = "FAILED"
  /\ deployRet = "False"
  /\ pc = "exit"

\* C36: in run_pipeline a unit is submitted only after create_topics has
\* returned True, with both topics created or found existing and both
\* schemas registered; after a create_topics that returned False
\* deploy_pipeline is not called, nothing is loaded or submitted, and the
\* process does not end without cleanup having been called.
C36_NoSubmitBeforeTopics ==
  /\ (\/ \E i \in DOMAIN postCode : postCode[i] # "none"
      \/ pc \in {"dp_load", "dp_loop", "ex_post", "ex_checked", "dp_executed",
                 "dp_settle", "dp_checked", "ck_get", "ck_sleep"}
      \/ deployRet # "none") =>
       /\ createRet = "True"
       /\ readyTopics = BothTopics
       /\ registered = BothSubjects
  /\ createRet = "False" =>
       /\ deployRet = "none"
       /\ statements = <<>>
       /\ \A m \in DOMAIN remote : remote[m].owner # RunId
       /\ pc = "exit" => Len(cleanupCalls) >= 1

\* C36 witness: the first topic was created, the second failed, and
\* create_topics returned False; the run ended after cleanup, with
\* deploy_pipeline never called
C36_Witness ==
  /\ createRet = "False"
  /\ Cardinality(readyTopics) = 1
  /\ registered = {}
  /\ deployRet = "none"
  /\ Len(cleanupCalls) = 1
  /\ pc = "exit"

\* C37: when load_sql_files has returned True with no unit at all (no
\* file, or no part of any file passing the filter), deploy_pipeline sends
\* no submit and no status request, and it returns True.
C37_NoUnitsIsSuccess ==
  (Loaded /\ statements = <<>>) =>
    /\ postCode = <<>>
    /\ lastPhase = <<>>
    /\ remote = <<>>
    /\ pc \notin {"ex_post", "ex_checked", "dp_executed", "dp_settle",
                  "dp_checked", "ck_get", "ck_sleep"}
    /\ pc \in {"fm_deployed", "exit"} => deployRet = "True"
    /\ pc = "exit" => exitVal = "True"

\* C37 witness: two files, a comment and a text that is too short, gave
\* no unit; the deployment ended with True and nothing sent
C37_Witness ==
  /\ Len(sqlDir) = 2
  /\ \A f \in DOMAIN sqlDir :
       /\ GoodParts(f) = {}
       /\ \E k \in DOMAIN sqlDir[f].parts : sqlDir[f].parts[k].len > 0
  /\ statements = <<>>
  /\ postCode = <<>>
  /\ deployRet = "True"
  /\ exitVal = "True"

====
